---- MODULE Spec2Model ----
(***************************************************************************)
(* broCode MCP server: the claim / release protocol and the mailbox, as    *)
(* implemented in mcp_server/src/brocode_mcp (server.py, neo4j_client.py,  *)
(* queries.py).                                                            *)
(*                                                                         *)
(* The Neo4j store is the only shared state.  Every Neo4jClient method is  *)
(* one transaction (session.execute_read / execute_write) and is modelled  *)
(* as one atomic step; a tool call is the sequence of its round trips, and *)
(* the round trips of different calls interleave freely.                   *)
(*                                                                         *)
(* Text that the code inspects character by character (claim_reason,       *)
(* message) is a sequence of one-character strings; names and paths that   *)
(* are only compared for equality are plain strings.                       *)
(***************************************************************************)
EXTENDS Naturals, Integers, Sequences, FiniteSets, TLC

VARIABLES
    nodes,      \* Codebase / Directory / File nodes of the graph
    agents,     \* Agent nodes: name -> [model, messages]
    claims,     \* CLAIM edges: [agent, node, claim_reason]
    rels,       \* the other relationships between nodes: [type, from, to]
    calls,      \* per caller: the tool call it is executing, if any
    resp,       \* the call that returned in the last step, with its result
    ncalls      \* number of tool calls started so far

vars == <<nodes, agents, claims, rels, calls, resp, ncalls>>

----------------------------------------------------------------------------
(* Bounds of the model *)

MaxCalls == 4       \* tool calls started in one behaviour
MaxMsgs == 1        \* a send is started only while the inbox is shorter
MaxUpdates == 2     \* an update is started only among the first calls

Procs == {"p1", "p2"}                   \* concurrent callers of the server
AgentNames == {"A", "B"}                \* values of agent_name

\* (node_path, codebase_name): the Codebase node of repoA, the file of repoB,
\* and that file's path under repoA, where no node has it.
Targets == {<<"repoA", "repoA">>, <<"src/x.py", "repoB">>, <<"src/x.py", "repoA">>}

\* (agent_model, claim_reason) of a claim whose reason passes validation ...
Proper == {<<"claude", <<"a">>>>, <<"gemini", <<" ", "b">>>>}
\* ... and of one whose reason is empty or whitespace only.
Blank == {<<"claude", << >>>>, <<"gemini", <<" ">>>>}

\* Arguments of brocode_claim_node: (agent_name, agent_model, node_path,
\* codebase_name, claim_reason).
ClaimInputs ==
    {<<a, mr[1], t[1], t[2], mr[2]>> : a \in AgentNames, mr \in Proper, t \in Targets}
    \cup {<<"A", mr[1], t[1], t[2], mr[2]>> : mr \in Blank, t \in Targets}

\* Arguments of brocode_release_node: (agent_name, node_path, codebase_name).
ReleaseInputs == {<<a, t[1], t[2]>> : a \in AgentNames, t \in Targets}

\* Arguments of brocode_send_message: (from_agent, to_agent, message).
SendInputs ==
    { <<"A", "B", <<"m">>>>, <<"B", "A", <<"m">>>>, <<"A", "A", <<"m">>>>,
      <<"A", "B", << >>>>, <<"B", "A", <<" ">>>> }

\* Python None, and an absent property of a node.
Null == "null"

----------------------------------------------------------------------------
(* The indexed graph the server starts from: two codebases, the second     *)
(* with one file.                                                          *)

\* os.path.basename and os.path.splitext(...)[1], on the paths in use.
basename(path) ==
    CASE path = "src/x.py" -> "x.py"
      [] path = "src/y.py" -> "y.py"
      [] path = "lib/z.py" -> "z.py"
      [] path = "src/sub" -> "sub"
      [] OTHER -> path

splitext(path) ==
    IF path \in {"src/x.py", "src/y.py", "lib/z.py"} THEN ".py" ELSE ""

\* A node with no property set: an absent text property is Null, an absent
\* number -1, an absent flag FALSE.
BlankNode ==
    [id |-> 0, label |-> Null, path |-> Null, name |-> Null, codebase |-> Null,
     file_path |-> Null, extension |-> Null, size_bytes |-> -1, depth |-> -1,
     line_number |-> -1, is_method |-> FALSE, parameters |-> Null,
     owner_class |-> Null, base_classes |-> Null]

CodebaseNode(name) ==
    [BlankNode EXCEPT !.label = "Codebase", !.name = name]

FileNode(path, name, codebase) ==
    [BlankNode EXCEPT !.label = "File", !.path = path, !.name = name,
                      !.codebase = codebase, !.extension = splitext(path),
                      !.size_bytes = 0]

DirectoryNode(path, name, codebase, depth) ==
    [BlankNode EXCEPT !.label = "Directory", !.path = path, !.name = name,
                      !.codebase = codebase, !.depth = depth]

FunctionNode(file_path, name, codebase, line_number, owner_class) ==
    [BlankNode EXCEPT !.label = "Function", !.file_path = file_path,
                      !.name = name, !.codebase = codebase,
                      !.line_number = line_number,
                      !.is_method = (owner_class # ""),
                      !.parameters = "", !.owner_class = owner_class]

ClassNode(file_path, name, codebase, line_number) ==
    [BlankNode EXCEPT !.label = "Class", !.file_path = file_path,
                      !.name = name, !.codebase = codebase,
                      !.line_number = line_number, !.base_classes = ""]

InitNodes ==
    { CodebaseNode("repoA"), CodebaseNode("repoB"),
      FileNode("src/x.py", "x.py", "repoB") }

\* A relationship other than CLAIM.
Rel(type, from, to) == [type |-> type, from |-> from, to |-> to]

InitRels ==
    { Rel("CONTAINS_FILE", CodebaseNode("repoB"),
          FileNode("src/x.py", "x.py", "repoB")) }

----------------------------------------------------------------------------
(* Python str helpers *)

Whitespace == {" "}

RECURSIVE lstrip(_)
lstrip(s) ==
    IF s # << >> /\ Head(s) \in Whitespace THEN lstrip(Tail(s)) ELSE s

RECURSIVE rstrip(_)
rstrip(s) ==
    IF s # << >> /\ s[Len(s)] \in Whitespace
    THEN rstrip(SubSeq(s, 1, Len(s) - 1))
    ELSE s

\* str.strip()
strip(s) == rstrip(lstrip(s))

\* `not s or not s.strip()`
IsBlankNoStrip(s) == s = << >>
IsBlank(s) == s = << >> \/ strip(s) = << >>

----------------------------------------------------------------------------
(* queries.py / neo4j_client.py: the store operations.  Each returns the   *)
(* rows it yields (`ret`) and, for a write, the store after it.            *)

\* The WHERE clause shared by the claim queries.
MatchesAnyLabel(n, node_path, codebase) ==
    \/ n.label = "Codebase" /\ n.name = codebase /\ node_path = codebase
    \/ n.label \in {"File", "Directory"} /\ n.path = node_path /\ n.codebase = codebase
    \/ n.label \in {"Class", "Function"} /\ n.name = node_path /\ n.codebase = codebase
Matches(n, node_path, codebase) ==
    \/ n.label = "Codebase" /\ n.name = codebase /\ node_path = codebase
    \/ /\ n.label \in {"File", "Directory"}
       /\ n.path = node_path
       /\ n.codebase = codebase

\* CHECK_NODE_EXISTS: the matching nodes (LIMIT 1 keeps any one of them).
check_node_exists_any_codebase(node_path, codebase) ==
    {n \in nodes :
        \/ n.label = "Codebase" /\ n.name = node_path
        \/ n.label \in {"File", "Directory"} /\ n.path = node_path}
check_node_exists(node_path, codebase) ==
    {n \in nodes : Matches(n, node_path, codebase)}

\* CHECK_EXISTING_CLAIM: one row per CLAIM edge into a matching node.
check_existing_claim_sees_none(node_path, codebase) == {}
check_existing_claim_in_codebase(node_path, codebase) ==
    { [agent_name |-> c.agent,
       agent_model |-> agents[c.agent].model,
       claim_reason |-> c.claim_reason] :
         c \in {e \in claims : \/ e.node.codebase = codebase
                               \/ e.node.label = "Codebase" /\ e.node.name = codebase} }
check_existing_claim(node_path, codebase) ==
    { [agent_name |-> c.agent,
       agent_model |-> agents[c.agent].model,
       claim_reason |-> c.claim_reason] :
         c \in {e \in claims : Matches(e.node, node_path, codebase)} }

\* MERGE (a:Agent {name}) SET a.model
MergeAgentKeepModel(agent_name, agent_model) ==
    IF agent_name \in DOMAIN agents
    THEN agents
    ELSE [x \in DOMAIN agents \cup {agent_name} |->
            IF x = agent_name
            THEN [model |-> agent_model, messages |-> << >>]
            ELSE agents[x]]
MergeAgent(agent_name, agent_model) ==
    [x \in DOMAIN agents \cup {agent_name} |->
        IF x = agent_name
        THEN [model |-> agent_model,
              messages |-> IF x \in DOMAIN agents
                           THEN agents[x].messages ELSE << >>]
        ELSE agents[x]]

\* MERGE (a)-[c:CLAIM]->(n) SET c.claim_reason, for every matching node n
MergeClaim(agent_name, targets, claim_reason) ==
    {c \in claims : ~(c.agent = agent_name /\ c.node \in targets)} \cup
        {[agent |-> agent_name, node |-> n, claim_reason |-> claim_reason] :
            n \in targets}

\* CREATE_CLAIM
create_claim(agent_name, agent_model, node_path, codebase, claim_reason) ==
    LET targets == {n \in nodes : Matches(n, node_path, codebase)}
    IN  [agents |-> MergeAgent(agent_name, agent_model),
         claims |-> MergeClaim(agent_name, targets, claim_reason),
         ret    |-> targets]

\* RELEASE_CLAIM
ReleaseAnyAgent(agent_name, node_path, codebase) ==
    LET gone == {c \in claims : Matches(c.node, node_path, codebase)}
    IN  [claims |-> claims \ gone, ret |-> gone]
release_claim(agent_name, node_path, codebase) ==
    LET gone == {c \in claims :
                    c.agent = agent_name /\ Matches(c.node, node_path, codebase)}
    IN  [claims |-> claims \ gone, ret |-> gone]

\* COUNT_AGENT_CLAIMS: not scoped to a codebase.
count_agent_claims_in_files(agent_name) ==
    Cardinality({c \in claims : c.agent = agent_name /\ c.node.label = "File"})
count_agent_claims(agent_name) ==
    Cardinality({c \in claims : c.agent = agent_name})

\* DELETE_AGENT: DETACH DELETE removes the node and its CLAIM edges.
delete_agent(agent_name) ==
    [agents |-> [x \in DOMAIN agents \ {agent_name} |-> agents[x]],
     claims |-> {c \in claims : c.agent # agent_name}]

\* CHECK_AGENT_EXISTS
check_agent_exists_any_name(agent_name) == agents # << >>
check_agent_exists(agent_name) == agent_name \in DOMAIN agents

\* SEND_MESSAGE: append to the recipient's list, return its new size.
send_message_in_front(to_agent, message_json) ==
    IF to_agent \in DOMAIN agents
    THEN LET new == <<message_json>> \o agents[to_agent].messages
         IN  [agents |-> [agents EXCEPT ![to_agent].messages = new],
              ret    |-> {Len(new)}]
    ELSE [agents |-> agents, ret |-> {}]
send_message_registers_sender(to_agent, message_json) ==
    IF to_agent \in DOMAIN agents
    THEN LET new == Append(agents[to_agent].messages, message_json)
             from == message_json[1]
         IN  [agents |-> [x \in DOMAIN agents \cup {from} |->
                            IF x = to_agent
                            THEN [agents[x] EXCEPT !.messages = new]
                            ELSE IF x \in DOMAIN agents THEN agents[x]
                            ELSE [model |-> Null, messages |-> << >>]],
              ret    |-> {Len(new)}]
    ELSE [agents |-> agents, ret |-> {}]
send_message(to_agent, message_json) ==
    IF to_agent \in DOMAIN agents
    THEN LET new == Append(agents[to_agent].messages, message_json)
         IN  [agents |-> [agents EXCEPT ![to_agent].messages = new],
              ret    |-> {Len(new)}]
    ELSE [agents |-> agents, ret |-> {}]

\* GET_MESSAGES: the raw list of the agent, [] when there is no such agent.
get_messages(agent_name) ==
    IF agent_name \in DOMAIN agents THEN agents[agent_name].messages ELSE << >>

\* CLEAR_MESSAGES: the Agent nodes after it.
clear_messages_oldest(agent_name) ==
    IF agent_name \in DOMAIN agents /\ agents[agent_name].messages # << >>
    THEN [agents EXCEPT ![agent_name].messages = Tail(@)]
    ELSE agents
clear_messages(agent_name) ==
    IF agent_name \in DOMAIN agents
    THEN [agents EXCEPT ![agent_name].messages = << >>]
    ELSE agents

\* GET_ACTIVE_AGENTS_ALL / GET_ACTIVE_AGENTS_BY_CODEBASE: the CLAIM edges in
\* scope; an empty codebase means all codebases.
get_active_agents(codebase) ==
    {c \in claims :
        \/ codebase = ""
        \/ c.node.label = "Codebase" /\ c.node.name = codebase
        \/ c.node.label \in {"File", "Directory"} /\ c.node.codebase = codebase}

----------------------------------------------------------------------------
(* queries.py / neo4j_client.py: the search (neo4j_client.py 25, 334-389)  *)

ANY_NODE_TYPES == {"File", "Directory", "Codebase", "Class", "Function", "Module"}
VALID_NODE_TYPES == {"File", "Directory", "Codebase", "Class", "Function"}

\* The strings that occur as node_path, in the order of ORDER BY (by code
\* point), and the place of a string in it.
Collation ==
    <<"K", "f", "g", "lib", "lib/z.py", "m", "repoA", "repoB", "src", "src/x.py">>
Rank(text) == CHOOSE i \in 1..Len(Collation) : Collation[i] = text

\* fnmatch.fnmatch(name, pat) for the patterns tried: `*` stands for any
\* run of characters, "/" included; a pattern without `*` matches itself.
fnmatch(name, pat) ==
    CASE pat = "*" -> TRUE
      [] pat = "src/*" -> name \in {"src/x.py"}
      [] pat = "*.py" -> name \in {"lib/z.py", "src/x.py"}
      [] pat = "s*" -> name \in {"src", "src/x.py"}
      [] OTHER -> name = pat

\* The first k entries of a list; the entries that pass a test keep their
\* order (SelectSeq).
Take(list, k) == SubSeq(list, 1, IF k < Len(list) THEN k ELSE Len(list))

\* QUERY_CODEBASE_TEMPLATE: MATCH (n{type_clause}) WHERE {where_clause}
where_any_codebase(n, codebase, node_type) ==
    /\ n.label \in VALID_NODE_TYPES
    /\ node_type # "" => n.label = node_type
where_clause(n, codebase, node_type) ==
    /\ node_type # "" => n.label = node_type
    /\ IF node_type = "Codebase"
       THEN n.name = codebase
       ELSE \/ n.label = "Codebase" /\ n.name = codebase
            \/ n.codebase = codebase

\* ... OPTIONAL MATCH (a:Agent)-[c:CLAIM]->(n) RETURN ...: one row for each
\* CLAIM edge into a matching node, one row for a node without.
QueryRows(codebase, node_type) ==
    LET Row(n, claimed_by, claim_reason) ==
            [node_labels |-> n.label,
             node_path |-> IF n.path # Null THEN n.path ELSE n.name,
             node_name |-> n.name,
             claimed_by |-> claimed_by, claim_reason |-> claim_reason]
        matching == {n \in nodes : where_clause(n, codebase, node_type)}
    IN  {Row(c.node, c.agent, c.claim_reason) : c \in {e \in claims : e.node \in matching}}
        \cup {Row(n, Null, << >>) : n \in {m \in matching : \A e \in claims : e.node # m}}

\* ... ORDER BY node_path: the rows of the first string of the collation,
\* then those of the second, and so on.  Rows of one node_path (the rows of
\* a node with several CLAIM edges) come in an order the store chooses.
RECURSIVE InSomeOrder(_)
InSomeOrder(rows) ==
    IF rows = {} THEN << >>
    ELSE LET r == CHOOSE x \in rows : TRUE
         IN  <<r>> \o InSomeOrder(rows \ {r})
RECURSIVE OrderFrom(_, _)
OrderFrom(rows, i) ==
    IF i > Len(Collation) THEN << >>
    ELSE InSomeOrder({r \in rows : r.node_path = Collation[i]})
            \o OrderFrom(rows, i + 1)
OrderBy(rows) == OrderFrom(rows, 1)

\* Neo4jClient.query_codebase: fetch, filter by the glob, cut to the limit.
query_codebase(codebase, path_filter, node_type, limit) ==
    LET fetch_limit == IF path_filter # "" THEN limit * 5 ELSE limit
        records == Take(OrderBy(QueryRows(codebase, node_type)), fetch_limit)
        Passes(r) == fnmatch(r.node_path, path_filter)
    IN  Take(IF path_filter # "" THEN SelectSeq(records, Passes) ELSE records, limit)

----------------------------------------------------------------------------
(* queries.py / neo4j_client.py: the graph updates.  A node is its record; *)
(* a SET on a node replaces the record wherever the node stands: in        *)
(* `nodes`, at either end of a relationship, at the head of a CLAIM edge.  *)
(* Each operation returns the graph after it.                              *)

\* The graph with every node n replaced by upd(n).
Apply(upd(_)) ==
    [nodes  |-> {upd(n) : n \in nodes},
     rels   |-> {Rel(r.type, upd(r.from), upd(r.to)) : r \in rels},
     claims |-> {[c EXCEPT !.node = upd(c.node)] : c \in claims}]

\* The id of the next node the store creates.  A node of the indexed graph
\* has id 0 (its key tells it from the others).
NewId ==
    LET ids == {n.id : n \in nodes}
    IN  1 + (CHOOSE i \in ids \cup {0} : \A j \in ids \cup {0} : j <= i)

\* MERGE: a node is created only when no node matches.
MergeAlwaysCreates(matched, fresh) == {fresh}
MergeNew(matched, fresh) == IF matched = {} THEN {fresh} ELSE {}

\* The parent an upserted File or Directory is linked to: the Directory at
\* parent_path, or the Codebase node when parent_path is ''.
ParentOf(g, codebase, parent_path) ==
    IF parent_path # ""
    THEN {d \in g.nodes : /\ d.label = "Directory"
                          /\ d.path = parent_path
                          /\ d.codebase = codebase}
    ELSE {cb \in g.nodes : cb.label = "Codebase" /\ cb.name = codebase}

\* UPSERT_FILE
SetFile(n, name, extension, size_bytes) ==
    [n EXCEPT !.name = name, !.extension = extension, !.size_bytes = size_bytes]

upsert_file(codebase, path, name, extension, size_bytes, parent_path) ==
    LET key(n) == n.label = "File" /\ n.path = path /\ n.codebase = codebase
        fresh == [BlankNode EXCEPT !.id = NewId, !.label = "File",
                                   !.path = path, !.codebase = codebase]
        upd(n) == IF key(n) THEN SetFile(n, name, extension, size_bytes) ELSE n
        g0 == Apply(upd)
        g == [g0 EXCEPT !.nodes =
                @ \cup {upd(n) : n \in MergeNew({n \in nodes : key(n)}, fresh)}]
    IN  [g EXCEPT !.rels =
            @ \cup {Rel("CONTAINS_FILE", d, f) :
                        d \in ParentOf(g, codebase, parent_path),
                        f \in {n \in g.nodes : key(n)}}]

\* UPSERT_DIRECTORY
upsert_directory(codebase, path, name, depth, parent_path) ==
    LET key(n) == n.label = "Directory" /\ n.path = path /\ n.codebase = codebase
        fresh == [BlankNode EXCEPT !.id = NewId, !.label = "Directory",
                                   !.path = path, !.codebase = codebase]
        upd(n) == IF key(n) THEN [n EXCEPT !.name = name, !.depth = depth] ELSE n
        g0 == Apply(upd)
        g == [g0 EXCEPT !.nodes =
                @ \cup {upd(n) : n \in MergeNew({n \in nodes : key(n)}, fresh)}]
    IN  [g EXCEPT !.rels =
            @ \cup {Rel("CONTAINS_DIR", d, n) :
                        d \in ParentOf(g, codebase, parent_path),
                        n \in {n \in g.nodes : key(n)}}]

\* UPSERT_FUNCTION
upsert_function(codebase, file_path, name, line_number, is_method, parameters, owner_class) ==
    LET key(n) == /\ n.label = "Function" /\ n.file_path = file_path
                  /\ n.name = name /\ n.codebase = codebase
        fresh == [BlankNode EXCEPT !.id = NewId, !.label = "Function",
                                   !.file_path = file_path, !.name = name,
                                   !.codebase = codebase]
        upd(n) == IF key(n)
                  THEN [n EXCEPT !.line_number = line_number,
                                 !.is_method = is_method,
                                 !.parameters = parameters,
                                 !.owner_class = owner_class]
                  ELSE n
        g0 == Apply(upd)
        g == [g0 EXCEPT !.nodes =
                @ \cup {upd(n) : n \in MergeNew({n \in nodes : key(n)}, fresh)}]
        fns == {n \in g.nodes : key(n)}
        files == {f \in g.nodes : /\ f.label = "File" /\ f.path = file_path
                                  /\ f.codebase = codebase}
        classes ==
            IF owner_class # ""
            THEN {c \in g.nodes : /\ c.label = "Class"
                                  /\ c.file_path = file_path
                                  /\ c.name = owner_class
                                  /\ c.codebase = codebase}
            ELSE {}
    IN  [g EXCEPT !.rels = @ \cup {Rel("DEFINES_FUNCTION", f, fn) :
                                        f \in files, fn \in fns}
                             \cup {Rel("HAS_METHOD", c, fn) :
                                        c \in classes, fn \in fns}]

\* UPSERT_CLASS
upsert_class(codebase, file_path, name, line_number, base_classes) ==
    LET key(n) == /\ n.label = "Class" /\ n.file_path = file_path
                  /\ n.name = name /\ n.codebase = codebase
        fresh == [BlankNode EXCEPT !.id = NewId, !.label = "Class",
                                   !.file_path = file_path, !.name = name,
                                   !.codebase = codebase]
        upd(n) == IF key(n)
                  THEN [n EXCEPT !.line_number = line_number,
                                 !.base_classes = base_classes]
                  ELSE n
        g0 == Apply(upd)
        g == [g0 EXCEPT !.nodes =
                @ \cup {upd(n) : n \in MergeNew({n \in nodes : key(n)}, fresh)}]
    IN  [g EXCEPT !.rels =
            @ \cup {Rel("DEFINES_CLASS", f, c) :
                        f \in {f \in g.nodes : /\ f.label = "File"
                                               /\ f.path = file_path
                                               /\ f.codebase = codebase},
                        c \in {n \in g.nodes : key(n)}}]

\* The nodes reachable from `roots` along one or more relationships of any
\* type, followed from start to end: (n)-[*]->(m).
RECURSIVE Closure(_)
Closure(seen) ==
    LET more == {r.to : r \in {x \in rels : x.from \in seen}} \ seen
    IN  IF more = {} THEN seen ELSE Closure(seen \cup more)

Reachable(roots) ==
    Closure({r.to : r \in {x \in rels : x.from \in roots}})

\* DETACH DELETE: the nodes go, and with them every relationship at either
\* end of which one of them stands, CLAIM edges included.
DetachDelete(gone) ==
    [nodes  |-> nodes \ gone,
     rels   |-> {r \in rels : r.from \notin gone /\ r.to \notin gone},
     claims |-> {c \in claims : c.node \notin gone}]

\* DELETE_FILE
delete_file(path, codebase) ==
    LET fs == {n \in nodes : /\ n.label = "File" /\ n.path = path
                             /\ n.codebase = codebase}
    IN  DetachDelete(fs \cup Reachable(fs))

\* DELETE_DIRECTORY
delete_directory(path, codebase) ==
    LET ds == {n \in nodes : /\ n.label = "Directory" /\ n.path = path
                             /\ n.codebase = codebase}
    IN  DetachDelete(ds \cup Reachable(ds))

\* DELETE_FUNCTION
delete_function(file_path, name, codebase) ==
    DetachDelete({n \in nodes : /\ n.label = "Function"
                                /\ n.file_path = file_path
                                /\ n.name = name /\ n.codebase = codebase})

\* DELETE_CLASS: the class and the Functions whose owner_class names it; with
\* no such class the query has no row and deletes nothing.
delete_class(file_path, name, codebase) ==
    LET cs == {n \in nodes : /\ n.label = "Class" /\ n.file_path = file_path
                             /\ n.name = name /\ n.codebase = codebase}
        fns == {n \in nodes : /\ n.label = "Function"
                              /\ n.file_path = file_path
                              /\ n.owner_class = name /\ n.codebase = codebase}
    IN  IF cs = {} THEN DetachDelete({}) ELSE DetachDelete(cs \cup fns)

----------------------------------------------------------------------------
(* server.py: one record per caller.  `trace` lists the store operations    *)
(* the current call has awaited.  `free`, `beaten` and `dropped` are        *)
(* history kept for the properties below: whether the target carried no     *)
(* CLAIM edge when the call began and no CLAIM edge has been removed since; *)
(* whether, while this call was in progress, a call of another agent on the *)
(* same target returned "claimed"; and how many messages the Agent node     *)
(* deleted, or the mailbox cleared, by this call held.                      *)

NoArgs ==
    [agent_name |-> "", agent_model |-> "", node_path |-> "",
     codebase_name |-> "", claim_reason |-> << >>,
     from_agent |-> "", to_agent |-> "", message |-> << >>,
     changes |-> << >>,
     path_filter |-> "", node_type |-> "", limit |-> 0]

NoResult ==
    [status |-> "", message |-> "", claimed_by |-> "",
     claim_reason |-> << >>, message_count |-> -1,
     applied |-> -1, errors |-> << >>,
     messages |-> << >>, count |-> -1, nodes |-> << >>,
     agents |-> << >>, reindex_status |-> Null]

Idle ==
    [tool |-> "none", pc |-> "idle", args |-> NoArgs, remaining |-> -1,
     result |-> NoResult, trace |-> << >>,
     free |-> FALSE, beaten |-> FALSE, dropped |-> -1]

Result(status, message) ==
    [NoResult EXCEPT !.status = status, !.message = message]

CanStart(p) == calls[p].pc = "idle" /\ ncalls < MaxCalls

\* The caller's record when it enters a tool.
Enter(tool, args, free) ==
    [Idle EXCEPT !.tool = tool, !.args = args, !.free = free]

\* c after awaiting store operation `op`, now at `pc`.
Await(c, op, pc) == [c EXCEPT !.trace = Append(@, op), !.pc = pc]

\* c after `return result`.
Return(c, result) == [c EXCEPT !.pc = "done", !.result = result]

\* Whether c and d are claim calls of different agents on the same target.
Rivals(c, d) ==
    /\ c.tool = "claim" /\ d.tool = "claim"
    /\ c.args.agent_name # d.args.agent_name
    /\ c.args.node_path = d.args.node_path
    /\ c.args.codebase_name = d.args.codebase_name

\* One step of caller p that leaves its call at c: a finished call is handed
\* back as the response and the caller is idle again.  `removed` tells
\* whether the step removed a CLAIM edge.
Step(p, c, removed) ==
    /\ calls' = [q \in Procs |->
                    IF q = p
                    THEN (IF c.pc = "done" THEN Idle ELSE c)
                    ELSE [calls[q] EXCEPT
                            !.free = @ /\ ~removed,
                            !.beaten = @ \/ /\ c.pc = "done"
                                            /\ c.result.status = "claimed"
                                            /\ c.free
                                            /\ Rivals(c, calls[q])]]
    /\ resp' = IF c.pc = "done" THEN c ELSE Idle

----------------------------------------------------------------------------
(* Tool 1: brocode_claim_node (server.py 423-507) *)

\* Lines 471-487: the loop returns on its first iteration, so the first row
\* decides.
claim_verdict(claim, agent_name) ==
    IF claim.agent_name = agent_name
    THEN Result("already_yours", "already claimed")
    ELSE [Result("conflict", "CONFLICT") EXCEPT
            !.claimed_by = claim.agent_name,
            !.claim_reason = claim.claim_reason]

\* Lines 446-467: validation of claim_reason, then step 1, the node lookup.
brocode_claim_node(p, agent_name, agent_model, node_path, codebase_name, claim_reason) ==
    /\ CanStart(p)
    /\ ncalls' = ncalls + 1
    /\ LET args == [NoArgs EXCEPT !.agent_name = agent_name,
                                  !.agent_model = agent_model,
                                  !.node_path = node_path,
                                  !.codebase_name = codebase_name,
                                  !.claim_reason = claim_reason]
           c == Enter("claim", args,
                      check_existing_claim(node_path, codebase_name) = {})
       IN  Step(p,
             IF IsBlank(claim_reason)
             THEN Return(c, Result("error", "claim_reason is required"))
             ELSE IF check_node_exists(node_path, codebase_name) = {}
             THEN Return(Await(c, "check_node_exists", "done"),
                         Result("error", "not found"))
             ELSE Await(c, "check_node_exists", "check_claim"),
             FALSE)
    /\ UNCHANGED <<nodes, agents, claims, rels>>

\* Lines 469-487: step 2, the existing claims.  The query has no ORDER BY,
\* so any row may come first.
claim_check_existing(p) ==
    /\ calls[p].tool = "claim" /\ calls[p].pc = "check_claim"
    /\ LET a == calls[p].args
           rows == check_existing_claim(a.node_path, a.codebase_name)
           c == Await(calls[p], "check_existing_claim", "create")
       IN  IF rows = {}
           THEN Step(p, c, FALSE)
           ELSE \E first \in rows :
                  Step(p, Return(c, claim_verdict(first, a.agent_name)), FALSE)
    /\ UNCHANGED <<nodes, agents, claims, rels, ncalls>>

\* Lines 489-507: step 3, the write.
claim_create(p) ==
    /\ calls[p].tool = "claim" /\ calls[p].pc = "create"
    /\ LET a == calls[p].args
           r == create_claim(a.agent_name, a.agent_model, a.node_path,
                             a.codebase_name, a.claim_reason)
           c == Await(calls[p], "create_claim", "done")
       IN  /\ agents' = r.agents
           /\ claims' = r.claims
           /\ Step(p,
                IF r.ret = {}
                THEN Return(c, Result("error", "Failed to create claim"))
                ELSE Return(c, Result("claimed", "Successfully claimed")),
                FALSE)
    /\ UNCHANGED <<nodes, rels, ncalls>>

----------------------------------------------------------------------------
(* Tool 2: brocode_release_node (server.py 524-573) *)

\* Lines 546-553: the release transaction.
brocode_release_node(p, agent_name, node_path, codebase_name) ==
    /\ CanStart(p)
    /\ ncalls' = ncalls + 1
    /\ LET args == [NoArgs EXCEPT !.agent_name = agent_name,
                                  !.node_path = node_path,
                                  !.codebase_name = codebase_name]
           c == Enter("release", args,
                      check_existing_claim(node_path, codebase_name) = {})
           r == release_claim(agent_name, node_path, codebase_name)
       IN  /\ claims' = r.claims
           /\ Step(p,
                IF r.ret = {}
                THEN Return(Await(c, "release_claim", "done"),
                            Result("not_found", "No claim was found"))
                ELSE Await(c, "release_claim", "count"),
                r.ret # {})
    /\ UNCHANGED <<nodes, agents, rels>>

\* Line 564: whether the Agent node is to be deleted.
release_never_cleans_up(remaining) == FALSE
release_needs_cleanup(remaining) == remaining = 0

\* Lines 562-564: the remaining claims of the agent.
release_count(p) ==
    /\ calls[p].tool = "release" /\ calls[p].pc = "count"
    /\ LET remaining == count_agent_claims(calls[p].args.agent_name)
           c == [Await(calls[p], "count_agent_claims", "delete")
                    EXCEPT !.remaining = remaining]
       IN  Step(p,
             IF release_needs_cleanup(remaining)
             THEN c
             ELSE Return(c, Result("released", "Released")),
             FALSE)
    /\ UNCHANGED <<nodes, agents, claims, rels, ncalls>>

\* Lines 565-573: the Agent node is deleted.
release_delete(p) ==
    /\ calls[p].tool = "release" /\ calls[p].pc = "delete"
    /\ LET a == calls[p].args.agent_name
           r == delete_agent(a)
           c == [Await(calls[p], "delete_agent", "done") EXCEPT
                    !.dropped = IF a \in DOMAIN agents
                                THEN Len(agents[a].messages) ELSE 0]
       IN  /\ agents' = r.agents
           /\ claims' = r.claims
           /\ Step(p, Return(c, Result("released", "Released")),
                   r.claims # claims)
    /\ UNCHANGED <<nodes, rels, ncalls>>

----------------------------------------------------------------------------
(* Tool 3: brocode_update_graph (server.py 582-760) *)

_UPDATE_NODE_TYPES == {"File", "Directory", "Function", "Class"}
_UPDATE_ACTIONS == {"upsert", "delete"}

\* A change dict with no key set: an absent text value is Null, an absent
\* number -1; is_method absent is is_method False.
NoChange ==
    [action |-> Null, node_type |-> Null, path |-> Null, name |-> Null,
     extension |-> Null, size_bytes |-> -1, depth |-> -1, parent_path |-> Null,
     file_path |-> Null, function_name |-> Null, class_name |-> Null,
     line_number |-> -1, is_method |-> FALSE, parameters |-> Null,
     owner_class |-> Null, base_classes |-> Null]

\* `not change.get(field)`, for a text field.
Falsy(v) == v \in {Null, ""}

\* change.get(field) or fallback; change.get(field, default)
OrElse(v, fallback) == IF Falsy(v) THEN fallback ELSE v
GetText(v, default) == IF v = Null THEN default ELSE v
GetNum(v, default) == IF v = -1 THEN default ELSE v

_REQUIRED_FIELDS(action, node_type) ==
    CASE node_type \in {"File", "Directory"} -> <<"path">>
      [] node_type = "Function" -> <<"file_path", "function_name">>
      [] node_type = "Class" -> <<"file_path", "class_name">>
      [] OTHER -> << >>

\* The characters of a plain string, as far as strip() tells them apart.
Chars(text) ==
    CASE text = "" -> << >>
      [] text = " " -> <<" ">>
      [] OTHER -> <<text>>

\* _apply_single_change: the ValueError it raises, or Null.
_apply_single_change_any_fields(change, index) ==
    IF Falsy(change.action) THEN "missing required field 'action'"
    ELSE IF change.action \notin _UPDATE_ACTIONS THEN "invalid action"
    ELSE IF Falsy(change.node_type) THEN "missing required field 'node_type'"
    ELSE IF change.node_type \notin _UPDATE_NODE_TYPES THEN "invalid node_type"
    ELSE Null
_apply_single_change(change, index) ==
    LET required == _REQUIRED_FIELDS(change.action, change.node_type)
        missing == {k \in 1..Len(required) : Falsy(change[required[k]])}
    IN  IF Falsy(change.action) THEN "missing required field 'action'"
        ELSE IF change.action \notin _UPDATE_ACTIONS THEN "invalid action"
        ELSE IF Falsy(change.node_type) THEN "missing required field 'node_type'"
        ELSE IF change.node_type \notin _UPDATE_NODE_TYPES THEN "invalid node_type"
        ELSE IF missing # {} THEN "missing required field"
        ELSE Null

\* _dispatch_change: the store operation a validated change is sent to ...
DispatchOp(change) ==
    IF change.node_type = "File" THEN change.action \o "_file"
    ELSE IF change.node_type = "Directory" THEN change.action \o "_directory"
    ELSE IF change.node_type = "Function" THEN change.action \o "_function"
    ELSE change.action \o "_class"

\* ... and the graph after it.
_dispatch_change(codebase, change) ==
    IF change.action = "upsert"
    THEN CASE change.node_type = "File" ->
                upsert_file(codebase, change.path,
                            OrElse(change.name, basename(change.path)),
                            OrElse(change.extension, splitext(change.path)),
                            GetNum(change.size_bytes, 0),
                            GetText(change.parent_path, ""))
           [] change.node_type = "Directory" ->
                upsert_directory(codebase, change.path,
                                 OrElse(change.name, basename(change.path)),
                                 GetNum(change.depth, 0),
                                 GetText(change.parent_path, ""))
           [] change.node_type = "Function" ->
                upsert_function(codebase, change.file_path, change.function_name,
                                GetNum(change.line_number, 0), change.is_method,
                                GetText(change.parameters, ""),
                                GetText(change.owner_class, ""))
           [] change.node_type = "Class" ->
                upsert_class(codebase, change.file_path, change.class_name,
                             GetNum(change.line_number, 0),
                             GetText(change.base_classes, ""))
    ELSE CASE change.node_type = "File" -> delete_file(change.path, codebase)
           [] change.node_type = "Directory" ->
                delete_directory(change.path, codebase)
           [] change.node_type = "Function" ->
                delete_function(change.file_path, change.function_name, codebase)
           [] change.node_type = "Class" ->
                delete_class(change.file_path, change.class_name, codebase)

\* Lines 658-663: the status of a finished batch.
batch_status_ignores_applied(applied, errors) ==
    IF errors = << >> THEN "ok" ELSE "error"
batch_status(applied, errors) ==
    IF errors = << >> THEN "ok"
    ELSE IF applied > 0 THEN "partial"
    ELSE "error"

\* Lines 634-646: the top-level validation.
brocode_update_graph(p, codebase_name, changes) ==
    /\ CanStart(p)
    /\ ncalls < MaxUpdates
    /\ ncalls' = ncalls + 1
    /\ LET args == [NoArgs EXCEPT !.codebase_name = codebase_name,
                                  !.changes = changes]
           c == Enter("update", args, FALSE)
       IN  Step(p,
             IF IsBlank(Chars(codebase_name))
             THEN Return(c, Result("error", "codebase_name is required."))
             ELSE IF changes = << >>
             THEN Return(c, Result("error", "changes list is required"))
             ELSE [c EXCEPT !.pc = "apply", !.result.applied = 0],
             FALSE)
    /\ UNCHANGED <<nodes, agents, claims, rels>>

\* Lines 648-665: one turn of the loop, and the return after the last.  The
\* store operation either commits or raises, leaving the graph as it was.
update_apply(p) ==
    /\ calls[p].tool = "update" /\ calls[p].pc = "apply"
    /\ LET a == calls[p].args
           done == calls[p].result
           i == done.applied + Len(done.errors)
           change == a.changes[i + 1]
           invalid == _apply_single_change(change, i)
           After(c) ==
               IF i + 1 < Len(a.changes)
               THEN c
               ELSE Return(c, [c.result EXCEPT
                       !.status = batch_status(c.result.applied, c.result.errors)])
       IN  IF invalid # Null
           THEN /\ Step(p, After([calls[p] EXCEPT
                          !.result.errors = Append(@, [index |-> i, error |-> invalid])]),
                        FALSE)
                /\ UNCHANGED <<nodes, rels, claims>>
           ELSE \E commits \in BOOLEAN :
                  LET g == _dispatch_change(a.codebase_name, change)
                      c == Await(calls[p], DispatchOp(change), "apply")
                  IN  IF commits
                      THEN /\ nodes' = g.nodes
                           /\ rels' = g.rels
                           /\ claims' = g.claims
                           /\ Step(p, After([c EXCEPT !.result.applied = @ + 1]),
                                   Cardinality(g.claims) < Cardinality(claims))
                      ELSE /\ Step(p, After([c EXCEPT
                                     !.result.errors =
                                        Append(@, [index |-> i, error |-> "store"])]),
                                   FALSE)
                           /\ UNCHANGED <<nodes, rels, claims>>
    /\ UNCHANGED <<agents, ncalls>>

----------------------------------------------------------------------------
(* Tool 4: brocode_get_active_agents (server.py 777-825) *)

\* Lines 795-825: the rows grouped by agent; the names of the agents listed.
brocode_get_active_agents(codebase_name) ==
    {rec.agent : rec \in get_active_agents(codebase_name)}

\* ORDER BY a.name, node_path: the CLAIM edges by agent name, and those of
\* one agent by the path of the node.
AgentCollation == <<"A", "B", "C">>
RECURSIVE EdgesByPath(_, _)
EdgesByPath(edges, i) ==
    IF i > Len(Collation) THEN << >>
    ELSE InSomeOrder({e \in edges :
                        Collation[i] = IF e.node.path # Null THEN e.node.path
                                       ELSE e.node.name})
            \o EdgesByPath(edges, i + 1)
RECURSIVE EdgesByAgent(_, _)
EdgesByAgent(edges, i) ==
    IF i > Len(AgentCollation) THEN << >>
    ELSE EdgesByPath({e \in edges : e.agent = AgentCollation[i]}, 1)
            \o EdgesByAgent(edges, i + 1)

\* The rows of the query, one per CLAIM edge in scope.
active_agent_rows(codebase) ==
    LET edges == EdgesByAgent(get_active_agents(codebase), 1)
    IN  [i \in 1..Len(edges) |->
            [agent_name |-> edges[i].agent,
             agent_model |-> agents[edges[i].agent].model,
             node_labels |-> edges[i].node.label,
             node_path |-> IF edges[i].node.path # Null THEN edges[i].node.path
                           ELSE edges[i].node.name,
             claim_reason |-> edges[i].claim_reason]]

\* Lines 798-819: one turn of the grouping loop, on the list built so far.
add_ungrouped(grouped, rec) ==
    Append(grouped,
           [agent_name |-> rec.agent_name, agent_model |-> rec.agent_model,
            claims |-> <<[node_path |-> rec.node_path,
                          node_type |-> rec.node_labels,
                          claim_reason |-> rec.claim_reason]>>])
add_to_group(grouped, rec) ==
    LET entry == [node_path |-> rec.node_path, node_type |-> rec.node_labels,
                  claim_reason |-> rec.claim_reason]
        at == {k \in 1..Len(grouped) : grouped[k].agent_name = rec.agent_name}
    IN  IF at = {}
        THEN Append(grouped, [agent_name |-> rec.agent_name,
                              agent_model |-> rec.agent_model,
                              claims |-> <<entry>>])
        ELSE [grouped EXCEPT ![CHOOSE k \in at : TRUE].claims = Append(@, entry)]

RECURSIVE group_by_agent(_, _, _)
group_by_agent(records, i, grouped) ==
    IF i > Len(records) THEN grouped
    ELSE group_by_agent(records, i + 1, add_to_group(grouped, records[i]))

\* Lines 792-825.
list_active_agents(p, codebase_name) ==
    /\ CanStart(p)
    /\ ncalls' = ncalls + 1
    /\ LET args == [NoArgs EXCEPT !.codebase_name = codebase_name]
           c == Await(Enter("active", args, FALSE), "get_active_agents", "done")
           grouped == group_by_agent(active_agent_rows(codebase_name), 1, << >>)
       IN  Step(p, Return(c, [Result("ok", "") EXCEPT !.count = Len(grouped),
                                                      !.agents = grouped]),
                FALSE)
    /\ UNCHANGED <<nodes, agents, claims, rels>>

----------------------------------------------------------------------------
(* Tool 5: brocode_send_message (server.py 924-993) *)

\* Lines 971-977: the payload handed to the store.  The timestamp is the
\* number of calls started so far, a clock that never runs backwards.
msg_dict_without_path(from_agent, message, node_path) ==
    [from |-> from_agent, content |-> message, node_path |-> "",
     timestamp |-> ncalls]
msg_dict(from_agent, message, node_path) ==
    [from |-> from_agent, content |-> message, node_path |-> node_path,
     timestamp |-> ncalls]

\* json.dumps of a message dict, and json.loads of a stored string: the
\* string is the values of the dict in the order of its keys.
json_dumps(d) == <<d.from, d.content, d.node_path, d.timestamp>>
json_loads(raw) ==
    [from |-> raw[1], content |-> raw[2], node_path |-> raw[3], timestamp |-> raw[4]]

msg_json(from_agent, message, node_path) ==
    json_dumps(msg_dict(from_agent, message, node_path))

\* The inbox of to_agent holds fewer than `bound` messages.
InboxBelow(to_agent, bound) ==
    to_agent \in DOMAIN agents => Len(agents[to_agent].messages) < bound

\* Lines 946-968: validation, then the recipient lookup.
brocode_send_message(p, from_agent, to_agent, message, node_path) ==
    /\ CanStart(p)
    /\ ncalls' = ncalls + 1
    /\ LET args == [NoArgs EXCEPT !.from_agent = from_agent,
                                  !.to_agent = to_agent,
                                  !.message = message,
                                  !.node_path = node_path]
           c == Enter("send", args, FALSE)
       IN  Step(p,
             IF from_agent = to_agent
             THEN Return(c, Result("error", "Cannot send a message to yourself"))
             ELSE IF IsBlank(message)
             THEN Return(c, Result("error", "Message content is required"))
             ELSE IF ~check_agent_exists(to_agent)
             THEN Return(Await(c, "check_agent_exists", "done"),
                         Result("error", "Agent not found"))
             ELSE Await(c, "check_agent_exists", "send"),
             FALSE)
    /\ UNCHANGED <<nodes, agents, claims, rels>>

\* Lines 979-993: the append.
send_deliver(p) ==
    /\ calls[p].tool = "send" /\ calls[p].pc = "send"
    /\ LET a == calls[p].args
           r == send_message(a.to_agent,
                             msg_json(a.from_agent, a.message, a.node_path))
           c == Await(calls[p], "send_message", "done")
       IN  /\ agents' = r.agents
           /\ Step(p,
                IF r.ret = {}
                THEN Return(c, Result("error", "Failed to deliver message"))
                ELSE Return(c, [Result("sent", "") EXCEPT
                                  !.message_count = CHOOSE n \in r.ret : TRUE]),
                FALSE)
    /\ UNCHANGED <<nodes, claims, rels, ncalls>>

----------------------------------------------------------------------------
(* Tool 6: brocode_get_messages (server.py 1010-1046) *)

brocode_get_messages_and_clear(p, agent_name) ==
    /\ CanStart(p)
    /\ ncalls' = ncalls + 1
    /\ agents' = clear_messages(agent_name)
    /\ LET args == [NoArgs EXCEPT !.agent_name = agent_name]
           raw_messages == get_messages(agent_name)
           messages == [i \in 1..Len(raw_messages) |-> json_loads(raw_messages[i])]
           c == Await(Enter("get", args, FALSE), "get_messages", "done")
       IN  Step(p, Return(c, [Result("ok", "") EXCEPT !.messages = messages,
                                                      !.count = Len(messages)]),
                FALSE)
    /\ UNCHANGED <<nodes, claims, rels>>
brocode_get_messages(p, agent_name) ==
    /\ CanStart(p)
    /\ ncalls' = ncalls + 1
    /\ LET args == [NoArgs EXCEPT !.agent_name = agent_name]
           raw_messages == get_messages(agent_name)
           messages == [i \in 1..Len(raw_messages) |-> json_loads(raw_messages[i])]
           c == Await(Enter("get", args, FALSE), "get_messages", "done")
       IN  Step(p, Return(c, [Result("ok", "") EXCEPT !.messages = messages,
                                                      !.count = Len(messages)]),
                FALSE)
    /\ UNCHANGED <<nodes, agents, claims, rels>>

----------------------------------------------------------------------------
(* Tool 7: brocode_clear_messages (server.py 1063-1083) *)

brocode_clear_messages(p, agent_name) ==
    /\ CanStart(p)
    /\ ncalls' = ncalls + 1
    /\ agents' = clear_messages(agent_name)
    /\ LET args == [NoArgs EXCEPT !.agent_name = agent_name]
           c == Await([Enter("clear", args, FALSE) EXCEPT
                          !.dropped = Len(get_messages(agent_name))],
                      "clear_messages", "done")
       IN  Step(p, Return(c, Result("ok", "Messages cleared")), FALSE)
    /\ UNCHANGED <<nodes, claims, rels>>

----------------------------------------------------------------------------
(* Tool 8: brocode_query_codebase (server.py 842-906) *)

\* Line 876: the limit put between 1 and 200.
clamp(limit) ==
    LET capped == IF limit < 200 THEN limit ELSE 200
    IN  IF capped > 1 THEN capped ELSE 1

brocode_query_codebase(p, codebase_name, path_filter, node_type, limit) ==
    /\ CanStart(p)
    /\ ncalls' = ncalls + 1
    /\ LET args == [NoArgs EXCEPT !.codebase_name = codebase_name,
                                  !.path_filter = path_filter,
                                  !.node_type = node_type,
                                  !.limit = limit]
           c == Enter("query", args, FALSE)
           records == query_codebase(codebase_name, path_filter, node_type,
                                     clamp(limit))
           found == [i \in 1..Len(records) |->
                        [path |-> records[i].node_path,
                         name |-> records[i].node_name,
                         type |-> records[i].node_labels,
                         claimed_by |-> records[i].claimed_by,
                         claim_reason |-> records[i].claim_reason]]
       IN  Step(p,
             IF node_type # "" /\ node_type \notin VALID_NODE_TYPES
             THEN Return(c, Result("error", "Invalid node_type"))
             ELSE Return(Await(c, "query_codebase", "done"),
                         [Result("ok", "") EXCEPT !.count = Len(found),
                                                  !.nodes = found]),
             FALSE)
    /\ UNCHANGED <<nodes, agents, claims, rels>>

----------------------------------------------------------------------------
(* The system *)

Init ==
    /\ nodes = InitNodes
    /\ agents = << >>
    /\ claims = {}
    /\ rels = InitRels
    /\ calls = [p \in Procs |-> Idle]
    /\ resp = Idle
    /\ ncalls = 0

Next ==
    \E p \in Procs :
        \/ \E i \in ClaimInputs :
                brocode_claim_node(p, i[1], i[2], i[3], i[4], i[5])
        \/ claim_check_existing(p)
        \/ claim_create(p)
        \/ \E i \in ReleaseInputs : brocode_release_node(p, i[1], i[2], i[3])
        \/ release_count(p)
        \/ release_delete(p)
        \/ \E i \in SendInputs :
                InboxBelow(i[2], MaxMsgs) /\ brocode_send_message(p, i[1], i[2], i[3], "")
        \/ send_deliver(p)

Spec == Init /\ [][Next]_vars

----------------------------------------------------------------------------
(* The system with the graph updates: the server on an indexed codebase    *)
(* with two directories, a file in each, and the functions and classes of  *)
(* the files; f of src/x.py calls g of lib/z.py.                           *)

GraphNodes ==
    { CodebaseNode("repoB"),
      DirectoryNode("src", "src", "repoB", 0),
      DirectoryNode("lib", "lib", "repoB", 0),
      FileNode("src/x.py", "x.py", "repoB"),
      FileNode("lib/z.py", "z.py", "repoB"),
      FunctionNode("src/x.py", "f", "repoB", 1, ""),
      ClassNode("src/x.py", "K", "repoB", 2),
      FunctionNode("src/x.py", "m", "repoB", 3, "K"),
      FunctionNode("lib/z.py", "g", "repoB", 1, "") }

GraphRels ==
    { Rel("CONTAINS_DIR", CodebaseNode("repoB"),
          DirectoryNode("src", "src", "repoB", 0)),
      Rel("CONTAINS_DIR", CodebaseNode("repoB"),
          DirectoryNode("lib", "lib", "repoB", 0)),
      Rel("CONTAINS_FILE", DirectoryNode("src", "src", "repoB", 0),
          FileNode("src/x.py", "x.py", "repoB")),
      Rel("CONTAINS_FILE", DirectoryNode("lib", "lib", "repoB", 0),
          FileNode("lib/z.py", "z.py", "repoB")),
      Rel("DEFINES_FUNCTION", FileNode("src/x.py", "x.py", "repoB"),
          FunctionNode("src/x.py", "f", "repoB", 1, "")),
      Rel("DEFINES_CLASS", FileNode("src/x.py", "x.py", "repoB"),
          ClassNode("src/x.py", "K", "repoB", 2)),
      Rel("HAS_METHOD", ClassNode("src/x.py", "K", "repoB", 2),
          FunctionNode("src/x.py", "m", "repoB", 3, "K")),
      Rel("DEFINES_FUNCTION", FileNode("lib/z.py", "z.py", "repoB"),
          FunctionNode("lib/z.py", "g", "repoB", 1, "")),
      Rel("CALLS", FunctionNode("src/x.py", "f", "repoB", 1, ""),
          FunctionNode("lib/z.py", "g", "repoB", 1, "")) }

\* Change dicts.
Upsert(node_type) == [NoChange EXCEPT !.action = "upsert", !.node_type = node_type]
Delete(node_type) == [NoChange EXCEPT !.action = "delete", !.node_type = node_type]

UpFileX == [Upsert("File") EXCEPT !.path = "src/x.py", !.size_bytes = 7,
                                  !.parent_path = "src"]
UpFileY == [Upsert("File") EXCEPT !.path = "src/y.py", !.parent_path = "src"]
UpFileYAgain == [Upsert("File") EXCEPT !.path = "src/y.py", !.name = "why.py",
                                       !.size_bytes = 3, !.parent_path = "src"]
UpFileYRoot == [Upsert("File") EXCEPT !.path = "src/y.py"]
UpFileYOrphan == [Upsert("File") EXCEPT !.path = "src/y.py", !.parent_path = "gone"]
UpDirSub == [Upsert("Directory") EXCEPT !.path = "src/sub", !.depth = 1,
                                        !.parent_path = "src"]
UpFnF == [Upsert("Function") EXCEPT !.file_path = "src/x.py",
                                    !.function_name = "f", !.line_number = 9,
                                    !.parameters = "a, b"]
UpFnN == [Upsert("Function") EXCEPT !.file_path = "src/x.py",
                                    !.function_name = "n", !.is_method = TRUE,
                                    !.owner_class = "K"]
UpClassK == [Upsert("Class") EXCEPT !.file_path = "src/x.py", !.class_name = "K",
                                    !.base_classes = "Base"]
DelFileX == [Delete("File") EXCEPT !.path = "src/x.py"]
DelDirSrc == [Delete("Directory") EXCEPT !.path = "src"]
DelFnF == [Delete("Function") EXCEPT !.file_path = "src/x.py",
                                     !.function_name = "f"]
DelClassK == [Delete("Class") EXCEPT !.file_path = "src/x.py", !.class_name = "K"]
BadAction == [UpFileX EXCEPT !.action = "rename"]
BadType == [UpFileX EXCEPT !.node_type = "Module"]
NoPath == Upsert("File")
NoFnName == [Delete("Function") EXCEPT !.file_path = "src/x.py"]

\* The batches tried.
Batches ==
    { <<UpFileX>>, <<UpFileY, UpFileYAgain>>, <<UpFileYRoot>>, <<UpFileYOrphan>>,
      <<UpDirSub>>, <<UpFnF, UpFnN>>, <<UpClassK>>,
      <<DelFileX>>, <<DelDirSrc>>, <<DelFnF, DelClassK>>,
      <<BadAction, UpFileX>>, <<NoChange, BadType>>,
      <<UpFileY, NoPath, UpDirSub>>, <<NoFnName>> }

\* Arguments of brocode_update_graph: (codebase_name, changes).
UpdateInputs ==
    {<<"repoB", b>> : b \in Batches}
    \cup {<<"", <<UpFileX>>>>, <<" ", <<UpFileX>>>>, <<"repoB", << >>>>}

GraphClaimInputs ==
    { <<"A", "claude", "src/x.py", "repoB", <<"a">>>>,
      <<"B", "gemini", "src", "repoB", <<"a">>>> }

GraphReleaseInputs == { <<"A", "src/x.py", "repoB">> }

GraphInit ==
    /\ nodes = GraphNodes
    /\ agents = << >>
    /\ claims = {}
    /\ rels = GraphRels
    /\ calls = [p \in Procs |-> Idle]
    /\ resp = Idle
    /\ ncalls = 0

GraphNext ==
    \E p \in Procs :
        \/ \E i \in UpdateInputs : brocode_update_graph(p, i[1], i[2])
        \/ update_apply(p)
        \/ \E i \in GraphClaimInputs :
                brocode_claim_node(p, i[1], i[2], i[3], i[4], i[5])
        \/ claim_check_existing(p)
        \/ claim_create(p)
        \/ \E i \in GraphReleaseInputs : brocode_release_node(p, i[1], i[2], i[3])
        \/ release_count(p)
        \/ release_delete(p)

GraphSpec == GraphInit /\ [][GraphNext]_vars

----------------------------------------------------------------------------
(* The system with the mailbox: agent A registers by claiming the Codebase *)
(* node of repoA; B and C send it messages; inboxes are read and cleared.  *)

MaxInbox == 2       \* a send is started only while the inbox is shorter

MailClaimInputs ==
    { <<"A", "claude", "repoA", "repoA", <<"a">>>>,
      <<"B", "gemini", "src/x.py", "repoB", <<"a">>>> }

\* Arguments of brocode_send_message: (from_agent, to_agent, message,
\* node_path), node_path "" being its default.
MailSendInputs ==
    { <<"B", "A", <<"m">>, "">>, <<"C", "A", <<"n">>, "repoA">>,
      <<"C", "A", <<"m">>, "">>, <<"A", "B", <<"m">>, "src/x.py">> }

MailReaders == {"A", "B"}

MailNext ==
    \E p \in Procs :
        \/ \E i \in MailClaimInputs :
                brocode_claim_node(p, i[1], i[2], i[3], i[4], i[5])
        \/ claim_check_existing(p)
        \/ claim_create(p)
        \/ \E i \in MailSendInputs :
                /\ InboxBelow(i[2], MaxInbox)
                /\ brocode_send_message(p, i[1], i[2], i[3], i[4])
        \/ send_deliver(p)
        \/ \E a \in MailReaders : brocode_get_messages(p, a)
        \/ \E a \in MailReaders : brocode_clear_messages(p, a)

MailSpec == Init /\ [][MailNext]_vars

----------------------------------------------------------------------------
(* The system with the search: two indexed codebases, repoB as above and   *)
(* repoA with one file; agents claim nodes of repoB while the graph is     *)
(* searched.                                                               *)

QueryNodes == GraphNodes \cup {CodebaseNode("repoA"), FileNode("src/x.py", "x.py", "repoA")}

QueryRels ==
    GraphRels \cup {Rel("CONTAINS_FILE", CodebaseNode("repoA"),
                        FileNode("src/x.py", "x.py", "repoA"))}

\* Arguments of brocode_query_codebase: (codebase_name, path_filter,
\* node_type, limit).
QueryInputs ==
    {<<"repoB", pf, "", l>> : pf \in {"", "*.py", "s*"}, l \in {0, 1, 2, 500}}
    \cup {<<"repoA", "", "", 50>>, <<"repoA", "src/*", "", -1>>, <<"repoB", "lib", "", 1>>}
    \cup {<<"repoB", "", nt, 50>> : nt \in {"File", "Function", "Codebase", "Module", "file"}}
    \cup {<<"repoB", "s*", "Directory", 1>>, <<"repoB", "*", "Module", 1>>}

QueryInit ==
    /\ nodes = QueryNodes
    /\ agents = << >>
    /\ claims = {}
    /\ rels = QueryRels
    /\ calls = [p \in Procs |-> Idle]
    /\ resp = Idle
    /\ ncalls = 0

QueryNext ==
    \E p \in Procs :
        \/ \E i \in GraphClaimInputs :
                brocode_claim_node(p, i[1], i[2], i[3], i[4], i[5])
        \/ claim_check_existing(p)
        \/ claim_create(p)
        \/ \E i \in QueryInputs : brocode_query_codebase(p, i[1], i[2], i[3], i[4])

QuerySpec == QueryInit /\ [][QueryNext]_vars

----------------------------------------------------------------------------
(* The system with the listing of the active agents: agents claim and      *)
(* release nodes of the two codebases while the claims are listed.         *)

ActiveClaimInputs ==
    { <<"A", "claude", "repoA", "repoA", <<"a">>>>,
      <<"A", "claude", "src/x.py", "repoB", <<"b">>>>,
      <<"B", "gemini", "src", "repoB", <<"a">>>>,
      <<"B", "gemini", "repoA", "repoA", <<"a">>>> }

ActiveReleaseInputs == { <<"A", "repoA", "repoA">> }

ActiveScopes == {"", "repoA", "repoB"}

ActiveNext ==
    \E p \in Procs :
        \/ \E i \in ActiveClaimInputs :
                brocode_claim_node(p, i[1], i[2], i[3], i[4], i[5])
        \/ claim_check_existing(p)
        \/ claim_create(p)
        \/ \E i \in ActiveReleaseInputs : brocode_release_node(p, i[1], i[2], i[3])
        \/ release_count(p)
        \/ release_delete(p)
        \/ \E cb \in ActiveScopes : list_active_agents(p, cb)

ActiveSpec == QueryInit /\ [][ActiveNext]_vars

----------------------------------------------------------------------------
(* Vocabulary of the properties *)

Range(s) == {s[i] : i \in 1..Len(s)}

\* Empty or whitespace only, said without strip().
AllWhitespace(s) == \A i \in 1..Len(s) : s[i] \in Whitespace

\* The nodes (node_path, codebase_name) of `a` names, and the CLAIM edges
\* into them.
TargetNodes(a) == {n \in nodes : Matches(n, a.node_path, a.codebase_name)}
TargetEdges(a) == {c \in claims : Matches(c.node, a.node_path, a.codebase_name)}

\* Caller p takes the step of its call that stands at `pc`.
Takes(p, tool, pc) ==
    calls[p].tool = tool /\ calls[p].pc = pc /\ calls'[p].pc # pc

\* A call of `tool` begins in this step; BegunCall is its record after the
\* step, whether it has already returned or not.
Begins(tool) ==
    /\ ncalls' = ncalls + 1
    /\ \/ resp'.tool = tool
       \/ \E p \in Procs : calls[p].pc = "idle" /\ calls'[p].tool = tool
BegunCall ==
    IF resp'.pc = "done"
    THEN resp'
    ELSE calls'[CHOOSE p \in Procs : calls[p].pc = "idle" /\ calls'[p].pc # "idle"]

----------------------------------------------------------------------------
(* Claim exclusivity *)

\* C1: of the claim calls that different agents run concurrently on one node
\* that carried no CLAIM edge when they began (and from which none is removed
\* meanwhile), only one returns "claimed": a call that was in progress while
\* another agent's call on the same node returned "claimed" does not return
\* "claimed" itself.
C1_ExactlyOneClaimed ==
    (resp.tool = "claim" /\ resp.free /\ resp.beaten)
        => resp.result.status \in {"conflict", "already_yours"}

\* C2: every Codebase, Directory or File node has at most one incoming CLAIM
\* edge.
C2_AtMostOneClaimPerNode ==
    \A n \in nodes : Cardinality({c \in claims : c.node = n}) <= 1

----------------------------------------------------------------------------
(* brocode_claim_node *)

\* The CLAIM edges into the target of `a` held by agents other than the
\* caller, and those held by the caller.
HeldByOthers(a) == {c \in TargetEdges(a) : c.agent # a.agent_name}
HeldByCaller(a) == {c \in TargetEdges(a) : c.agent = a.agent_name}

\* C3: when a claim call reads the existing claims of a node that an agent X
\* other than the caller holds, it returns "conflict" with claimed_by = X and
\* claim_reason = the reason stored on X's edge, has not called create_claim,
\* and leaves every Agent node and CLAIM edge as it was.
C3_ConflictWithHolder ==
    [][\A p \in Procs :
        LET a == calls[p].args
        IN  (Takes(p, "claim", "check_claim") /\ HeldByOthers(a) # {}) =>
                /\ resp'.tool = "claim" /\ resp'.args = a
                /\ resp'.result.status = "conflict"
                /\ \A c \in HeldByOthers(a) :
                        /\ resp'.result.claimed_by = c.agent
                        /\ resp'.result.claim_reason = c.claim_reason
                /\ "create_claim" \notin Range(resp'.trace)
                /\ agents' = agents
                /\ claims' = claims]_vars

\* C4: when a claim call reads the existing claims of a node the caller
\* already holds, it returns "already_yours", has not called create_claim,
\* and leaves every Agent node (its model included) and every CLAIM edge
\* (its claim_reason included) as it was.
C4_AlreadyYoursNoMutation ==
    [][\A p \in Procs :
        LET a == calls[p].args
        IN  (Takes(p, "claim", "check_claim") /\ HeldByCaller(a) # {}) =>
                /\ resp'.tool = "claim" /\ resp'.args = a
                /\ resp'.result.status = "already_yours"
                /\ "create_claim" \notin Range(resp'.trace)
                /\ agents' = agents
                /\ claims' = claims]_vars

\* C5: a claim call with a non-blank reason on an existing node goes on to
\* read the existing claims; finding no CLAIM edge on the node it goes on to
\* the write; and the write on a node that exists returns "claimed" and
\* leaves an Agent node named agent_name whose model is agent_model and
\* exactly one CLAIM edge from that agent to the node, carrying the supplied
\* claim_reason.
C5_ClaimCreatesAgentAndEdge ==
    [][/\ (/\ Begins("claim")
           /\ ~AllWhitespace(BegunCall.args.claim_reason)
           /\ TargetNodes(BegunCall.args) # {})
              => BegunCall.pc = "check_claim"
       /\ \A p \in Procs :
            LET a == calls[p].args
            IN  /\ (Takes(p, "claim", "check_claim") /\ TargetEdges(a) = {})
                      => /\ calls'[p].pc = "create"
                         /\ calls'[p].args = a
                         /\ agents' = agents
                         /\ claims' = claims
                /\ (Takes(p, "claim", "create") /\ TargetNodes(a) # {})
                      => /\ resp'.tool = "claim" /\ resp'.args = a
                         /\ resp'.result.status = "claimed"
                         /\ a.agent_name \in DOMAIN agents'
                         /\ agents'[a.agent_name].model = a.agent_model
                         /\ \A n \in TargetNodes(a) :
                              {c \in claims' : c.agent = a.agent_name /\ c.node = n}
                                = {[agent |-> a.agent_name, node |-> n,
                                    claim_reason |-> a.claim_reason]}]_vars

\* C5 witness: a call that found its target without a CLAIM edge has returned
\* "claimed" to an agent that existed before under another model; the Agent
\* node now has the supplied model and the target carries the one edge.
C5_Witness ==
    /\ resp.tool = "claim" /\ resp.result.status = "claimed"
    /\ resp.args.agent_model = "gemini"
    /\ agents[resp.args.agent_name].model = "gemini"
    /\ \E c \in claims : c.agent = resp.args.agent_name /\ c.claim_reason = <<"a">>
    /\ TargetEdges(resp.args) =
          {[agent |-> resp.args.agent_name, node |-> n,
            claim_reason |-> resp.args.claim_reason] : n \in TargetNodes(resp.args)}

\* C6: a claim call whose claim_reason is empty or whitespace only returns
\* "error" having performed no store operation, whatever the graph holds; no
\* such call is ever past its validation.
C6_BlankReasonRejected ==
    /\ (resp.tool = "claim" /\ AllWhitespace(resp.args.claim_reason))
          => /\ resp.result.status = "error"
             /\ resp.trace = << >>
    /\ \A p \in Procs :
          calls[p].tool = "claim" => ~AllWhitespace(calls[p].args.claim_reason)

\* C6 witness: a whitespace-only reason was rejected on a node that exists,
\* while the graph held a CLAIM edge.
C6_Witness ==
    /\ resp.tool = "claim" /\ resp.args.claim_reason = <<" ">>
    /\ resp.result.status = "error"
    /\ TargetNodes(resp.args) # {}
    /\ claims # {}

\* C7: a claim call with a non-blank reason whose (node_path, codebase_name)
\* names no Codebase, Directory or File node returns "error" (not found)
\* straight after the node lookup: it awaits neither check_existing_claim nor
\* create_claim, and the store is as it was.
C7_UnknownNodeRejected ==
    [][(/\ Begins("claim")
        /\ ~AllWhitespace(BegunCall.args.claim_reason)
        /\ TargetNodes(BegunCall.args) = {})
          => /\ BegunCall.pc = "done"
             /\ BegunCall.result.status = "error"
             /\ BegunCall.result.message = "not found"
             /\ BegunCall.trace = <<"check_node_exists">>
             /\ agents' = agents
             /\ claims' = claims]_vars

\* C7 witness: the path of a file of repoB was claimed under repoA, where no
\* node has it, and the call returned the not-found error.
C7_Witness ==
    /\ resp.tool = "claim" /\ resp.result.message = "not found"
    /\ resp.args.node_path = "src/x.py" /\ resp.args.codebase_name = "repoA"
    /\ \E n \in nodes : n.path = resp.args.node_path
    /\ TargetNodes(resp.args) = {}

----------------------------------------------------------------------------
(* brocode_release_node *)

\* All CLAIM edges of an agent, in any codebase.
EdgesOf(agent_name) == {c \in claims : c.agent = agent_name}

\* C8: a release call of agent A on node n removes the CLAIM edge A -> n, and
\* nothing else, when that edge exists, and then returns "released" (after
\* the count and, possibly, the cleanup); when A has no edge on n, whether n
\* is unclaimed or claimed by another agent only, it returns "not_found"
\* after the one store operation and every CLAIM edge and Agent node is as
\* it was.
C8_ReleaseRemovesOwnEdgeOnly ==
    [][/\ Begins("release") =>
            LET a == BegunCall.args
            IN  IF HeldByCaller(a) # {}
                THEN /\ claims' = claims \ HeldByCaller(a)
                     /\ agents' = agents
                     /\ BegunCall.pc = "count"
                ELSE /\ BegunCall.pc = "done"
                     /\ BegunCall.result.status = "not_found"
                     /\ BegunCall.trace = <<"release_claim">>
                     /\ claims' = claims
                     /\ agents' = agents
       /\ \A p \in Procs :
            /\ Takes(p, "release", "count") =>
                  \/ calls'[p].pc = "delete" /\ calls'[p].args = calls[p].args
                  \/ /\ resp'.args = calls[p].args
                     /\ resp'.result.status = "released"
            /\ Takes(p, "release", "delete") =>
                  /\ resp'.args = calls[p].args
                  /\ resp'.result.status = "released"]_vars

\* C8 witness: a release has returned "released" while another agent holds a
\* CLAIM edge, and the releasing agent's edge on the node is gone.
C8_Witness ==
    /\ resp.tool = "release" /\ resp.result.status = "released"
    /\ HeldByCaller(resp.args) = {}
    /\ \E c \in claims : c.agent # resp.args.agent_name

\* C9: when the count that follows an agent's release finds that the agent
\* holds no CLAIM edge any more, the call goes on to delete the Agent node;
\* and when the call then returns "released", the Agent node, and with it
\* the messages it stored, is gone and the agent is not among the agents
\* brocode_get_active_agents lists, for all codebases or for any one.
C9_LastReleaseDeletesAgent ==
    [][\A p \in Procs :
        LET a == calls[p].args.agent_name
        IN  /\ (Takes(p, "release", "count") /\ EdgesOf(a) = {})
                  => /\ calls'[p].pc = "delete"
                     /\ calls'[p].args = calls[p].args
            /\ Takes(p, "release", "delete")
                  => /\ resp'.tool = "release" /\ resp'.args = calls[p].args
                     /\ resp'.result.status = "released"
                     /\ a \notin DOMAIN agents'
                     /\ \A cb \in {"", "repoA", "repoB"} :
                            a \notin brocode_get_active_agents(cb)']_vars

\* C9 witness: an agent that held one claim and had a message waiting has
\* released the claim; the call returned "released" and the Agent node, with
\* the message, is gone.
C9_Witness ==
    /\ resp.tool = "release" /\ resp.result.status = "released"
    /\ resp.remaining = 0
    /\ resp.dropped >= 1
    /\ resp.args.agent_name \notin DOMAIN agents
    /\ resp.args.agent_name \notin brocode_get_active_agents("")

C11_ReleaseThenClaimable ==
    [][/\ Begins("release") =>
            (HeldByCaller(BegunCall.args) # {}
                => {c \in claims' : c.node \in TargetNodes(BegunCall.args)} = {})
       /\ \A p \in Procs :
            LET a == calls[p].args
            IN  /\ (Takes(p, "claim", "check_claim") /\ TargetEdges(a) = {})
                      => calls'[p].pc = "create"
                /\ (Takes(p, "claim", "create") /\ TargetNodes(a) # {})
                      => resp'.args = a /\ resp'.result.status = "claimed"]_vars

----------------------------------------------------------------------------
(* brocode_update_graph *)

\* The record of caller p's call after the step: the response, if the step
\* returned.
Left(p) == IF calls[p].pc # "idle" /\ calls'[p].pc = "idle" THEN resp' ELSE calls'[p]

\* Caller p's update call takes one turn of its loop; TurnIndex is the index
\* of the change the turn is about and TurnChange the change.
TakesTurn(p) ==
    /\ calls[p].tool = "update" /\ calls[p].pc = "apply"
    /\ Left(p).result # calls[p].result
TurnIndex(p) == calls[p].result.applied + Len(calls[p].result.errors)
TurnChange(p) == calls[p].args.changes[TurnIndex(p) + 1]

\* The turn counted its change as applied / recorded an error for it.
CountsApplied(p) ==
    TakesTurn(p) /\ Left(p).result.applied = calls[p].result.applied + 1
RecordsError(p) ==
    TakesTurn(p) /\ Len(Left(p).result.errors) = Len(calls[p].result.errors) + 1

\* The nodes of `among` with the natural key of change `ch` in `codebase`.
WithKey(among, ch, codebase) ==
    {n \in among :
        /\ n.label = ch.node_type /\ n.codebase = codebase
        /\ CASE ch.node_type \in {"File", "Directory"} -> n.path = ch.path
             [] ch.node_type = "Function" ->
                    n.file_path = ch.file_path /\ n.name = ch.function_name
             [] ch.node_type = "Class" ->
                    n.file_path = ch.file_path /\ n.name = ch.class_name
             [] OTHER -> FALSE}

\* Node n carries every scalar field that change `ch` supplies.
CarriesFields(n, ch) ==
    CASE ch.node_type = "File" ->
            /\ ch.name \notin {Null, ""} => n.name = ch.name
            /\ ch.extension \notin {Null, ""} => n.extension = ch.extension
            /\ ch.size_bytes # -1 => n.size_bytes = ch.size_bytes
      [] ch.node_type = "Directory" ->
            /\ ch.name \notin {Null, ""} => n.name = ch.name
            /\ ch.depth # -1 => n.depth = ch.depth
      [] ch.node_type = "Function" ->
            /\ ch.line_number # -1 => n.line_number = ch.line_number
            /\ n.is_method = ch.is_method
            /\ ch.parameters # Null => n.parameters = ch.parameters
            /\ ch.owner_class # Null => n.owner_class = ch.owner_class
      [] ch.node_type = "Class" ->
            /\ ch.line_number # -1 => n.line_number = ch.line_number
            /\ ch.base_classes # Null => n.base_classes = ch.base_classes
      [] OTHER -> FALSE

C13_UpsertLinksParent ==
    [][\A p \in Procs :
        LET ch == TurnChange(p)
            codebase == calls[p].args.codebase_name
        IN  (/\ CountsApplied(p) /\ ch.action = "upsert"
             /\ ch.node_type \in {"File", "Directory"}) =>
                \A n \in WithKey(nodes', ch, codebase) :
                    \E r \in rels' :
                        /\ r.to = n
                        /\ r.type = (IF ch.node_type = "File"
                                     THEN "CONTAINS_FILE" ELSE "CONTAINS_DIR")
                        /\ IF ch.parent_path \in {Null, ""}
                           THEN r.from.label = "Codebase" /\ r.from.name = codebase
                           ELSE /\ r.from.label = "Directory"
                                /\ r.from.path = ch.parent_path
                                /\ r.from.codebase = codebase]_vars

\* The containment edges, and the nodes below `roots` along them.
Containment ==
    {"CONTAINS_DIR", "CONTAINS_FILE", "DEFINES_FUNCTION", "DEFINES_CLASS", "HAS_METHOD"}
RECURSIVE Below(_)
Below(seen) ==
    LET more == {r.to : r \in {x \in rels : x.type \in Containment /\ x.from \in seen}}
    IN  IF more \subseteq seen THEN seen ELSE Below(seen \cup more)

\* C14: an applied delete of a Directory or File removes the node and every
\* node below it along containment edges, and removes no other node.
C14_DeleteCascadesExactly ==
    [][\A p \in Procs :
        LET ch == TurnChange(p)
        IN  (/\ CountsApplied(p) /\ ch.action = "delete"
             /\ ch.node_type \in {"File", "Directory"}) =>
                nodes' = nodes \ Below(WithKey(nodes, ch, calls[p].args.codebase_name))]_vars

\* The CLAIM edges of `cs` by their ends: the agent and the key of the node.
ClaimKeys(cs) ==
    {[agent |-> c.agent, label |-> c.node.label, path |-> c.node.path,
      codebase |-> c.node.codebase] : c \in cs}

\* C15: an applied delete of a File or Directory removes no CLAIM edge and no
\* Agent node, and a step that removes a CLAIM edge is a step of a release
\* call.
C15_DeleteKeepsClaims ==
    [][/\ \A p \in Procs :
            (/\ CountsApplied(p) /\ TurnChange(p).action = "delete"
             /\ TurnChange(p).node_type \in {"File", "Directory"}) =>
                /\ ClaimKeys(claims') = ClaimKeys(claims)
                /\ agents' = agents
       /\ ~(ClaimKeys(claims) \subseteq ClaimKeys(claims')) =>
            \/ Begins("release")
            \/ \E p \in Procs : calls[p].tool = "release" /\ calls'[p].pc # calls[p].pc]_vars

\* The response of an update call that got past the top-level validation, so
\* that its batch was processed.
ProcessedBatch ==
    /\ resp.tool = "update"
    /\ ~AllWhitespace(Chars(resp.args.codebase_name))
    /\ resp.args.changes # << >>

\* C16: the status returned for a processed, non-empty batch is "ok" exactly
\* when errors is empty, "partial" exactly when errors is non-empty and
\* applied > 0, and "error" exactly when errors is non-empty and applied = 0.
C16_BatchStatus ==
    ProcessedBatch =>
        LET r == resp.result
        IN  /\ r.status = "ok" <=> r.errors = << >>
            /\ r.status = "partial" <=> (r.errors # << >> /\ r.applied > 0)
            /\ r.status = "error" <=> (r.errors # << >> /\ r.applied = 0)

\* C16 witness: a batch of three changes returned "partial", two applied and
\* one in error.
C16_Witness ==
    /\ ProcessedBatch
    /\ Len(resp.args.changes) = 3
    /\ resp.result.status = "partial"
    /\ resp.result.applied = 2 /\ Len(resp.result.errors) = 1

\* A change that passes validation: a known action, a known node type, and
\* the key fields of the node type present.
Present(v) == v \notin {Null, ""}
ValidChange(ch) ==
    /\ ch.action \in {"upsert", "delete"}
    /\ ch.node_type \in {"File", "Directory", "Function", "Class"}
    /\ ch.node_type \in {"File", "Directory"} => Present(ch.path)
    /\ ch.node_type = "Function" => Present(ch.file_path) /\ Present(ch.function_name)
    /\ ch.node_type = "Class" => Present(ch.file_path) /\ Present(ch.class_name)

\* C17: the changes of a batch are processed one by one in list order, each
\* counted once, as applied or as an error; a change that fails validation
\* becomes exactly one error and is not dispatched to the store, which stays
\* as it was; a valid change is dispatched whatever happened to the changes
\* before it; and on return applied + len(errors) = len(changes).
C17_EachChangeOnce ==
    [][\A p \in Procs :
        TakesTurn(p) =>
            LET before == calls[p]
                after == Left(p)
                ch == TurnChange(p)
            IN  /\ after.result.applied + Len(after.result.errors) = TurnIndex(p) + 1
                /\ after.result.applied >= before.result.applied
                /\ Len(after.result.errors) >= Len(before.result.errors)
                /\ ~ValidChange(ch) =>
                        /\ RecordsError(p)
                        /\ after.result.errors[Len(after.result.errors)].index = TurnIndex(p)
                        /\ after.trace = before.trace
                        /\ nodes' = nodes /\ rels' = rels /\ claims' = claims
                /\ ValidChange(ch) => Len(after.trace) = Len(before.trace) + 1
                /\ after.pc = "done" <=> TurnIndex(p) + 1 = Len(before.args.changes)
                /\ after.pc = "done" =>
                        after.result.applied + Len(after.result.errors)
                            = Len(after.args.changes)]_vars

\* C17 witness: of the batch [valid, missing path, valid] the first and the
\* third change were dispatched and applied and the second is the one error.
C17_Witness ==
    /\ resp.tool = "update" /\ resp.args.changes = <<UpFileY, NoPath, UpDirSub>>
    /\ resp.result.applied = 2
    /\ Len(resp.result.errors) = 1 /\ resp.result.errors[1].index = 1
    /\ resp.trace = <<"upsert_file", "upsert_directory">>

\* C18: an update call whose codebase_name is empty or whitespace only, or
\* whose changes list is empty, returns "error" at once: no change is
\* validated or counted, no store operation is awaited, and the graph is as
\* it was.  No such call is ever inside the loop.
C18_TopLevelRejection ==
    [][/\ (/\ Begins("update")
           /\ \/ AllWhitespace(Chars(BegunCall.args.codebase_name))
              \/ BegunCall.args.changes = << >>)
              => /\ BegunCall.pc = "done"
                 /\ BegunCall.result.status = "error"
                 /\ BegunCall.result.applied = NoResult.applied
                 /\ BegunCall.result.errors = << >>
                 /\ BegunCall.trace = << >>
                 /\ nodes' = nodes /\ rels' = rels
                 /\ claims' = claims /\ agents' = agents
       /\ \A p \in Procs :
            calls'[p].tool = "update" =>
                /\ ~AllWhitespace(Chars(calls'[p].args.codebase_name))
                /\ calls'[p].args.changes # << >>]_vars

\* C18 witness: a whitespace-only codebase_name was rejected with a batch
\* that is applied under the codebase's name, and the graph is still the
\* indexed one.
C18_Witness ==
    /\ resp.tool = "update" /\ resp.result.status = "error"
    /\ resp.trace = << >>
    /\ resp.args.codebase_name = " " /\ resp.args.changes = <<UpFileX>>
    /\ nodes = GraphNodes

\* The change of p's turn is an upsert whose parent_path names no Directory
\* of the codebase.
LookupMiss(p) ==
    LET ch == TurnChange(p)
    IN  /\ ch.action = "upsert" /\ ch.node_type \in {"File", "Directory"}
        /\ Present(ch.parent_path)
        /\ ~\E d \in nodes : /\ d.label = "Directory" /\ d.path = ch.parent_path
                              /\ d.codebase = calls[p].args.codebase_name

\* C19: a validated change whose store operation fails is recorded in errors
\* and not counted in applied, the graph staying as it was, and the changes
\* after it are still processed; an upsert whose parent_path names no
\* existing Directory of the codebase is such a failure.
C19_StoreFailureIsError ==
    [][\A p \in Procs :
        (TakesTurn(p) /\ ValidChange(TurnChange(p))) =>
            /\ LookupMiss(p) => RecordsError(p) /\ ~CountsApplied(p)
            /\ RecordsError(p) =>
                    /\ ~CountsApplied(p)
                    /\ nodes' = nodes /\ rels' = rels /\ claims' = claims
                    /\ TurnIndex(p) + 1 < Len(calls[p].args.changes)
                            => calls'[p].pc = "apply"]_vars

----------------------------------------------------------------------------
(* Mailbox *)

\* The stored messages of an agent, [] when there is no such agent.
Inbox(agent_name) ==
    IF agent_name \in DOMAIN agents THEN agents[agent_name].messages ELSE << >>

\* C20: a send that is applied puts its message behind the messages already
\* queued for the recipient, whoever sent them; no other step reorders a
\* queue (it stays as it is or is emptied); and brocode_get_messages returns
\* the queue of the recipient from its first, oldest entry to its last.
C20_MessagesInSendOrder ==
    [][/\ \A p \in Procs :
            (Takes(p, "send", "send") /\ resp'.result.status = "sent") =>
                LET a == calls[p].args
                    old == Inbox(a.to_agent)
                    new == agents'[a.to_agent].messages
                IN  /\ Len(new) = Len(old) + 1
                    /\ SubSeq(new, 1, Len(old)) = old
                    /\ json_loads(new[Len(new)]).from = a.from_agent
                    /\ json_loads(new[Len(new)]).content = a.message
       /\ \A r \in DOMAIN agents \cap DOMAIN agents' :
            \/ agents'[r].messages \in {agents[r].messages, << >>}
            \/ \E p \in Procs : Takes(p, "send", "send") /\ calls[p].args.to_agent = r
       /\ Begins("get") =>
            LET queued == Inbox(BegunCall.args.agent_name)
                got == BegunCall.result.messages
            IN  /\ BegunCall.pc = "done" /\ BegunCall.result.status = "ok"
                /\ Len(got) = Len(queued)
                /\ BegunCall.result.count = Len(queued)
                /\ \A i \in 1..Len(queued) : got[i] = json_loads(queued[i])]_vars

\* C20 witness: C's message was applied before B's, and A's read returned
\* the two in that order.
C20_Witness ==
    /\ resp.tool = "get" /\ resp.args.agent_name = "A"
    /\ resp.result.count = 2
    /\ resp.result.messages[1].from = "C" /\ resp.result.messages[1].content = <<"n">>
    /\ resp.result.messages[2].from = "B" /\ resp.result.messages[2].content = <<"m">>

\* C21: a send whose from_agent equals to_agent, or whose message is empty
\* or whitespace only, returns "error" having awaited no store operation; a
\* send to a name that no Agent node carries returns "error" after the
\* lookup of the recipient, and so does one whose recipient is gone when the
\* append runs; in each case every mailbox is as it was.
C21_SendRejected ==
    [][/\ Begins("send") =>
            LET c == BegunCall
                a == c.args
                invalid == a.from_agent = a.to_agent \/ AllWhitespace(a.message)
            IN  /\ invalid =>
                        /\ c.pc = "done" /\ c.result.status = "error"
                        /\ c.trace = << >>
                        /\ agents' = agents
                /\ (~invalid /\ a.to_agent \notin DOMAIN agents) =>
                        /\ c.pc = "done" /\ c.result.status = "error"
                        /\ c.trace = <<"check_agent_exists">>
                        /\ agents' = agents
       /\ \A p \in Procs :
            (Takes(p, "send", "send") /\ calls[p].args.to_agent \notin DOMAIN agents) =>
                /\ resp'.tool = "send" /\ resp'.result.status = "error"
                /\ agents' = agents
       /\ \A p \in Procs :
            calls'[p].tool = "send" =>
                /\ calls'[p].args.from_agent # calls'[p].args.to_agent
                /\ ~AllWhitespace(calls'[p].args.message)]_vars

\* C21 witness: a message for B was rejected as "Agent not found" while
\* another Agent node existed and B's did not.
C21_Witness ==
    /\ resp.tool = "send" /\ resp.result.status = "error"
    /\ resp.result.message = "Agent not found"
    /\ resp.args.to_agent = "B" /\ resp.args.from_agent = "A"
    /\ DOMAIN agents = {"A"}

\* C22: a send that returns "sent" leaves the recipient's list as it was
\* with one more entry at its end, the record of the sender, the content,
\* the node_path and a timestamp; every other Agent node is as it was; and
\* the message_count returned is the length of the list after the append,
\* one more than before.
C22_SentAppendsOne ==
    [][\A p \in Procs :
        (Takes(p, "send", "send") /\ resp'.result.status = "sent") =>
            LET a == calls[p].args
                old == Inbox(a.to_agent)
                new == agents'[a.to_agent].messages
                stored == json_loads(new[Len(new)])
            IN  /\ a.to_agent \in DOMAIN agents
                /\ Len(new) = Len(old) + 1
                /\ \A i \in 1..Len(old) : new[i] = old[i]
                /\ DOMAIN stored = {"from", "content", "node_path", "timestamp"}
                /\ stored.from = a.from_agent
                /\ stored.content = a.message
                /\ stored.node_path = a.node_path
                /\ stored.timestamp \in 0..ncalls
                /\ DOMAIN agents' = DOMAIN agents
                /\ agents'[a.to_agent].model = agents[a.to_agent].model
                /\ \A r \in DOMAIN agents \ {a.to_agent} : agents'[r] = agents[r]
                /\ resp'.result.message_count = Len(new)]_vars

\* C22 witness: a second message about repoA reached A's list, the count
\* returned is 2, and the message is the last of the two.
C22_Witness ==
    /\ resp.tool = "send" /\ resp.result.status = "sent"
    /\ resp.result.message_count = 2
    /\ resp.args.to_agent = "A" /\ resp.args.node_path = "repoA"
    /\ Len(Inbox("A")) = 2
    /\ json_loads(Inbox("A")[2]).node_path = "repoA"
    /\ json_loads(Inbox("A")[2]).from = "C"
    /\ json_loads(Inbox("A")[1]).from = "B"

\* C23: a read of the messages changes no mailbox and awaits no
\* clear_messages; and a read that directly follows a read of the same agent
\* returns the same messages in the same order.
C23_GetLeavesMailbox ==
    [][Begins("get") =>
        /\ agents' = agents
        /\ BegunCall.trace = <<"get_messages">>
        /\ (resp.tool = "get" /\ resp.args.agent_name = BegunCall.args.agent_name)
                => /\ BegunCall.result.messages = resp.result.messages
                   /\ BegunCall.result.count = resp.result.count]_vars

\* C23 witness: A has read its two messages and they are still in its
\* mailbox, as the read returned them.
C23_Witness ==
    /\ resp.tool = "get" /\ resp.args.agent_name = "A"
    /\ resp.trace = <<"get_messages">>
    /\ Len(resp.result.messages) = 2
    /\ Len(Inbox("A")) = 2
    /\ \A i \in 1..2 : resp.result.messages[i] = json_loads(Inbox("A")[i])

\* C24: a clear returns "ok" and leaves the agent's list empty, whatever it
\* held, and nothing else changed; on an empty list, and for a name without
\* Agent node, it changes nothing at all, so that a second clear leaves what
\* the first left.
C24_ClearEmpties ==
    [][Begins("clear") =>
        LET r == BegunCall.args.agent_name
        IN  /\ BegunCall.pc = "done" /\ BegunCall.result.status = "ok"
            /\ DOMAIN agents' = DOMAIN agents
            /\ r \in DOMAIN agents =>
                    /\ agents'[r].messages = << >>
                    /\ agents'[r].model = agents[r].model
            /\ \A x \in DOMAIN agents \ {r} : agents'[x] = agents[x]
            /\ Inbox(r) = << >> => agents' = agents
            /\ nodes' = nodes /\ rels' = rels /\ claims' = claims]_vars

\* C24 witness: A's clear found two messages and left none.
C24_Witness ==
    /\ resp.tool = "clear" /\ resp.args.agent_name = "A"
    /\ resp.result.status = "ok"
    /\ resp.dropped = 2
    /\ "A" \in DOMAIN agents /\ Inbox("A") = << >>

----------------------------------------------------------------------------
(* brocode_query_codebase *)

\* The nodes of the codebase, of the node type asked for if one is, with
\* the path each is listed under; those whose path matches the glob.
Listed(a) ==
    {n \in nodes :
        /\ \/ n.label = "Codebase" /\ n.name = a.codebase_name
           \/ n.label # "Codebase" /\ n.codebase = a.codebase_name
        /\ a.node_type # "" => n.label = a.node_type}
PathOf(n) == IF n.label \in {"File", "Directory"} THEN n.path ELSE n.name
Globbed(a) == {n \in Listed(a) : a.path_filter # "" => fnmatch(PathOf(n), a.path_filter)}

\* The limit in force: at least 1, at most 200.
PageSize(limit) ==
    LET atLeastOne == IF limit > 1 THEN limit ELSE 1
    IN  IF atLeastOne < 200 THEN atLeastOne ELSE 200

\* C25: a search whose node_type is non-empty and not one of Codebase,
\* Directory, File, Class, Function returns "error" and has issued no store
\* query.
C25_InvalidTypeRejected ==
    [][(/\ Begins("query")
        /\ BegunCall.args.node_type
                \notin {"", "Codebase", "Directory", "File", "Class", "Function"})
          => /\ BegunCall.pc = "done"
             /\ BegunCall.result.status = "error"
             /\ BegunCall.trace = << >>
             /\ BegunCall.result.nodes = << >>]_vars

\* C25 witness: the type "file", which differs from File by its case only,
\* was rejected although the codebase has File nodes.
C25_Witness ==
    /\ resp.tool = "query" /\ resp.args.node_type = "file"
    /\ resp.result.status = "error" /\ resp.trace = << >>
    /\ \E n \in nodes : n.label = "File" /\ n.codebase = resp.args.codebase_name

\* C26: a search that returns "ok" returns at most min(max(limit, 1), 200)
\* nodes, in ascending order of path, each a node of the requested codebase
\* (and of the requested type) and each matching the glob if one is given.
C26_QueryPage ==
    [][(Begins("query") /\ BegunCall.result.status = "ok") =>
        LET a == BegunCall.args
            got == BegunCall.result.nodes
        IN  /\ Len(got) <= PageSize(a.limit)
            /\ BegunCall.result.count = Len(got)
            /\ \A i, j \in 1..Len(got) :
                    i < j => Rank(got[i].path) <= Rank(got[j].path)
            /\ \A i \in 1..Len(got) :
                    \E n \in Globbed(a) :
                        /\ got[i].path = PathOf(n)
                        /\ got[i].name = n.name
                        /\ got[i].type = n.label]_vars

\* C26 witness: with limit 2 and the glob *.py the search of repoB returned
\* its two files, lib/z.py before src/x.py.
C26_Witness ==
    /\ resp.tool = "query" /\ resp.result.status = "ok"
    /\ resp.args.codebase_name = "repoB" /\ resp.args.path_filter = "*.py"
    /\ resp.args.limit = 2
    /\ Len(resp.result.nodes) = 2
    /\ resp.result.nodes[1].path = "lib/z.py"
    /\ resp.result.nodes[2].path = "src/x.py"

\* C27: when a glob is given and at least `limit` nodes of the codebase
\* match it, the search returns exactly `limit` nodes, the first `limit`
\* matching nodes in path order.
C27_FullPage ==
    [][(/\ Begins("query") /\ BegunCall.result.status = "ok"
        /\ BegunCall.args.path_filter # ""
        /\ Cardinality(Globbed(BegunCall.args)) >= PageSize(BegunCall.args.limit)) =>
        LET a == BegunCall.args
            got == BegunCall.result.nodes
        IN  /\ Len(got) = PageSize(a.limit)
            /\ \A i \in 1..Len(got) :
                    \E n \in Globbed(a) :
                        /\ got[i].path = PathOf(n)
                        /\ Cardinality({m \in Globbed(a) :
                                            Rank(PathOf(m)) < Rank(PathOf(n))}) = i - 1]_vars

----------------------------------------------------------------------------
(* brocode_get_active_agents *)

\* The CLAIM edges in the scope of a listing: all of them when no codebase
\* is named, else those into the nodes of the codebase.
InScope(codebase_name) ==
    {e \in claims :
        codebase_name # "" =>
            \/ e.node.label = "Codebase" /\ e.node.name = codebase_name
            \/ e.node.label # "Codebase" /\ e.node.codebase = codebase_name}

\* C28: a listing returns every agent with a CLAIM edge in scope exactly
\* once and no other agent, and for each agent as many claims entries as
\* the agent has CLAIM edges in scope, one for each edge.
C28_ActiveAgentsListed ==
    [][Begins("active") =>
        LET scope == InScope(BegunCall.args.codebase_name)
            got == BegunCall.result.agents
            Of(a) == {e \in scope : e.agent = a}
        IN  /\ BegunCall.pc = "done" /\ BegunCall.result.status = "ok"
            /\ BegunCall.result.count = Len(got)
            /\ \A e \in scope :
                    Cardinality({k \in 1..Len(got) : got[k].agent_name = e.agent}) = 1
            /\ \A k \in 1..Len(got) :
                    /\ Of(got[k].agent_name) # {}
                    /\ got[k].agent_model = agents[got[k].agent_name].model
                    /\ Len(got[k].claims) = Cardinality(Of(got[k].agent_name))
                    /\ \A e \in Of(got[k].agent_name) :
                            \E j \in 1..Len(got[k].claims) :
                                /\ got[k].claims[j].node_path = PathOf(e.node)
                                /\ got[k].claims[j].node_type = e.node.label
                                /\ got[k].claims[j].claim_reason = e.claim_reason]_vars

\* C28 witness: A holds the Codebase node of repoA and a file of repoB, B a
\* directory of repoB; the listing for repoB has A once with its one claim
\* there, and B.
C28_Witness ==
    /\ resp.tool = "active" /\ resp.args.codebase_name = "repoB"
    /\ Cardinality({e \in claims : e.agent = "A"}) = 2
    /\ Len(resp.result.agents) = 2
    /\ resp.result.agents[1].agent_name = "A"
    /\ Len(resp.result.agents[1].claims) = 1
    /\ resp.result.agents[1].claims[1].node_path = "src/x.py"
    /\ resp.result.agents[2].agent_name = "B"

----------------------------------------------------------------------------
(* Release and reindex *)

\* C29: a release that returns "released" has gone on, after the release of
\* the claim, to clear the subtree of the node and to reindex it, and
\* reports the outcome in reindex_status as success, skipped or error; the
\* CLAIM edge released stays removed whatever the outcome.
C29_ReleaseReindexes ==
    (resp.tool = "release" /\ resp.result.status = "released") =>
        /\ resp.result.reindex_status \in {"success", "skipped", "error"}
        /\ Len(resp.trace) > 1
        /\ resp.trace[1] = "release_claim"
        /\ \E i \in 2..Len(resp.trace) :
                resp.trace[i] \notin {"count_agent_claims", "delete_agent"}
        /\ HeldByCaller(resp.args) = {}

----------------------------------------------------------------------------
(* Agent lifecycle *)

AllIdle == \A p \in Procs : calls[p].pc = "idle"
ClaimCount(a) == Cardinality({c \in claims : c.agent = a})

\* C30: in every state in which no tool call is in progress, every existing
\* Agent node holds at least one CLAIM edge.
C30_NoAgentWithoutClaim ==
    AllIdle => \A a \in DOMAIN agents : ClaimCount(a) > 0

----------------------------------------------------------------------------
(* Shape of the graph *)

\* Updates of the indexed graph of repoB alone: the batches above, a batch
\* that moves Directory src under its own subdirectory, and batches for
\* repoC, a codebase that was never indexed.
UpDirSrcUnderSub ==
    [Upsert("Directory") EXCEPT !.path = "src", !.parent_path = "src/sub"]

ShapeInputs ==
    {<<"repoB", b>> : b \in Batches}
    \cup { <<"repoB", <<UpDirSub, UpDirSrcUnderSub>>>>,
           <<"repoC", <<UpFileYRoot>>>>, <<"repoC", <<UpFnF, UpClassK>>>>,
           <<"repoC", <<DelFileX>>>> }

ShapeNext ==
    \E p \in Procs :
        \/ \E i \in ShapeInputs : brocode_update_graph(p, i[1], i[2])
        \/ update_apply(p)

ShapeSpec == GraphInit /\ [][ShapeNext]_vars

\* The containment parents of node n, and the nodes strictly below it.
Parents(n) == {r.from : r \in {x \in rels : x.type \in Containment /\ x.to = n}}
Descendants(n) ==
    LET children == {r.to : r \in {x \in rels : x.type \in Containment /\ x.from = n}}
    IN  IF children = {} THEN {} ELSE Below(children)

\* C31: the containment edges form a forest: every node has at most one
\* containment parent and no node lies below itself.
C31_ContainmentForest ==
    \A n \in nodes : Cardinality(Parents(n)) <= 1 /\ n \notin Descendants(n)

\* C32: the codebase property of every Directory, File, Class and Function
\* node names exactly one existing Codebase node.
C32_CodebaseExists ==
    \A n \in nodes :
        n.label # "Codebase" =>
            Cardinality({cb \in nodes : cb.label = "Codebase" /\ cb.name = n.codebase}) = 1

----------------------------------------------------------------------------
(* Claims on the indexed tree of repoB *)

\* The Codebase node, a Directory in it and a File in that Directory.
TreeTargets == {<<"repoB", "repoB">>, <<"src", "repoB">>, <<"src/x.py", "repoB">>}

\* Claims of the tree targets by either agent, and of the names of a Class
\* and of a Function of the codebase.
TreeClaimInputs ==
    {<<a, "claude", t[1], t[2], <<"a">>>> : a \in AgentNames, t \in TreeTargets}
    \cup {<<"A", "claude", "K", "repoB", <<"a">>>>,
          <<"A", "claude", "f", "repoB", <<"a">>>>}

TreeReleaseInputs == {<<a, t[1], t[2]>> : a \in AgentNames, t \in TreeTargets}

TreeNext ==
    \E p \in Procs :
        \/ \E i \in TreeClaimInputs :
                brocode_claim_node(p, i[1], i[2], i[3], i[4], i[5])
        \/ claim_check_existing(p)
        \/ claim_create(p)
        \/ \E i \in TreeReleaseInputs : brocode_release_node(p, i[1], i[2], i[3])
        \/ release_count(p)
        \/ release_delete(p)

TreeSpec == GraphInit /\ [][TreeNext]_vars

\* (node_path, codebase_name) of `a` is the name of a Class or Function node
\* of the codebase and names no Codebase, Directory or File node.
NamesCodeOnly(a) ==
    /\ \E n \in nodes : /\ n.label \in {"Class", "Function"}
                        /\ n.name = a.node_path
                        /\ n.codebase = a.codebase_name
    /\ ~\E n \in nodes : /\ n.label \in {"Codebase", "Directory", "File"}
                         /\ a.node_path \in {n.path, n.name}

\* C33: every CLAIM edge targets a Codebase, Directory or File node, and a
\* claim call on a path that identifies only a Class or Function node
\* returns "error" and creates no CLAIM edge (and no Agent node).
C33_ClaimsOnTreeNodesOnly ==
    [][/\ \A c \in claims' : c.node.label \in {"Codebase", "Directory", "File"}
       /\ (Begins("claim") /\ NamesCodeOnly(BegunCall.args)) =>
             /\ BegunCall.pc = "done"
             /\ BegunCall.result.status = "error"
             /\ claims' = claims
             /\ agents' = agents]_vars

\* C33 witness: while CLAIM edges exist, a claim of the name of Function f of
\* repoB has returned "error".
C33_Witness ==
    /\ resp.tool = "claim" /\ resp.args.node_path = "f"
    /\ NamesCodeOnly(resp.args)
    /\ resp.result.status = "error"
    /\ claims # {}

----------------------------------------------------------------------------
(* Creation of Agent nodes *)

\* The statement that a successful send registers its sender: when a send
\* has returned "sent", an Agent node of the sender exists.
C34_SenderRegistered ==
    (resp.tool = "send" /\ resp.result.status = "sent")
        => resp.args.from_agent \in DOMAIN agents

\* C34: Agent nodes are created by claims only.  No step of a send call
\* creates an Agent node: the recipient's exists before the append and the
\* sender needs none; an Agent node appears only in the write of a claim
\* call of that agent.
C34_OnlyClaimsCreateAgents ==
    [][/\ (Begins("send") \/ \E p \in Procs : Takes(p, "send", "send"))
            => DOMAIN agents' = DOMAIN agents
       /\ \A x \in DOMAIN agents' \ DOMAIN agents :
            \E p \in Procs : /\ Takes(p, "claim", "create")
                             /\ calls[p].args.agent_name = x]_vars

\* C34 witness: a send has returned "sent" and its sender, who never claimed
\* a node, has no Agent node.
C34_Witness ==
    /\ resp.tool = "send" /\ resp.result.status = "sent"
    /\ resp.args.from_agent = "C"
    /\ resp.args.from_agent \notin DOMAIN agents
    /\ resp.args.to_agent \in DOMAIN agents

----------------------------------------------------------------------------
(* Calls executed one at a time *)

\* The claims and releases of TreeSpec, each call running to completion
\* before the next one starts.
SeqNext ==
    \E p \in Procs :
        \/ \E i \in TreeClaimInputs :
                AllIdle /\ brocode_claim_node(p, i[1], i[2], i[3], i[4], i[5])
        \/ claim_check_existing(p)
        \/ claim_create(p)
        \/ \E i \in TreeReleaseInputs :
                AllIdle /\ brocode_release_node(p, i[1], i[2], i[3])
        \/ release_count(p)
        \/ release_delete(p)

SeqSpec == GraphInit /\ [][SeqNext]_vars

\* C35: when calls execute one at a time, no node carries two CLAIM edges,
\* whatever the sequence of claims and releases and whoever the agents.
C35_SequentialOneClaimPerNode ==
    \A c, d \in claims : c.node = d.node => c = d

\* C35 witness: after MaxCalls calls, each run to completion, both agents
\* hold claims and the last call, a claim of a node that is held, has
\* returned "conflict".
C35_Witness ==
    /\ resp.tool = "claim" /\ resp.result.status = "conflict"
    /\ \E c, d \in claims : c.agent = "A" /\ d.agent = "B"
    /\ ncalls = MaxCalls

----------------------------------------------------------------------------
(* Who removes a CLAIM edge *)

\* The natural key of a claimable node, and the CLAIM edges a step removes:
\* those whose agent holds no edge on the node after the step.
NodeKey(n) ==
    <<n.label, n.path, n.codebase, IF n.label = "Codebase" THEN n.name ELSE Null>>
RemovedEdges ==
    {c \in claims :
        ~\E d \in claims' : d.agent = c.agent /\ NodeKey(d.node) = NodeKey(c.node)}

\* C36: a CLAIM edge from agent A to node n is removed only by the release
\* transaction of a call brocode_release_node(A, n); no other step of any
\* call removes it.
C36_OnlyOwnReleaseRemoves ==
    [][\A c \in RemovedEdges :
            /\ Begins("release")
            /\ BegunCall.args.agent_name = c.agent
            /\ Matches(c.node, BegunCall.args.node_path,
                       BegunCall.args.codebase_name)]_vars


\* C37: a call brocode_release_node(A, n) removes no CLAIM edge other than
\* A -> n, whatever other calls interleave with it: its release transaction
\* removes only edges from A to n, and its count and its deletion of the
\* Agent node remove none.
C37_ReleaseRemovesNothingElse ==
    [][/\ Begins("release") => RemovedEdges \subseteq HeldByCaller(BegunCall.args)
       /\ \A p \in Procs :
            (Takes(p, "release", "count") \/ Takes(p, "release", "delete"))
                => RemovedEdges = {}]_vars

----------------------------------------------------------------------------
(* Claims that fail *)

\* C38: a claim call that returns "error" leaves the store as it was: the
\* step in which it returns creates or modifies no Agent node and adds no
\* CLAIM edge (the earlier steps of a claim call only read).
C38_ErrorLeavesStore ==
    [][(resp'.tool = "claim" /\ resp'.result.status = "error")
            => /\ agents' = agents
               /\ claims' = claims
               /\ nodes' = nodes
               /\ rels' = rels]_vars

----------------------------------------------------------------------------
(* The get-then-clear sequence of a recipient *)

\* messaging_protocol, "Clear after reading": the recipient calls
\* brocode_get_messages, processes what it returned, then calls
\* brocode_clear_messages.  Between the two calls the caller's record keeps
\* the response of the first: the messages the agent has read.
reader_get_messages(p, agent_name) ==
    /\ CanStart(p)
    /\ ncalls' = ncalls + 1
    /\ LET args == [NoArgs EXCEPT !.agent_name = agent_name]
           raw_messages == get_messages(agent_name)
           messages == [i \in 1..Len(raw_messages) |-> json_loads(raw_messages[i])]
           c == Await(Enter("get", args, FALSE), "get_messages", "read")
       IN  Step(p, [c EXCEPT !.result = [Result("ok", "") EXCEPT
                                            !.messages = messages,
                                            !.count = Len(messages)]],
                FALSE)
    /\ UNCHANGED <<nodes, agents, claims, rels>>

reader_clear_messages(p) ==
    /\ calls[p].tool = "get" /\ calls[p].pc = "read"
    /\ ncalls < MaxCalls
    /\ ncalls' = ncalls + 1
    /\ LET agent_name == calls[p].args.agent_name
           args == [NoArgs EXCEPT !.agent_name = agent_name]
           c == Await([Enter("clear", args, FALSE) EXCEPT
                          !.dropped = Len(get_messages(agent_name))],
                      "clear_messages", "done")
       IN  /\ agents' = clear_messages(agent_name)
           /\ Step(p, Return(c, Result("ok", "Messages cleared")), FALSE)
    /\ UNCHANGED <<nodes, claims, rels>>

\* Agent A, once it has claimed, reads and clears its inbox from caller p1
\* while other agents send to it.
InboxNext ==
    \E p \in Procs :
        \/ brocode_claim_node(p, "A", "claude", "repoA", "repoA", <<"a">>)
        \/ claim_check_existing(p)
        \/ claim_create(p)
        \/ \E i \in {s \in MailSendInputs : s[2] = "A"} :
                /\ InboxBelow(i[2], MaxInbox)
                /\ brocode_send_message(p, i[1], i[2], i[3], i[4])
        \/ send_deliver(p)
        \/ p = "p1" /\ reader_get_messages(p, "A")
        \/ reader_clear_messages(p)

InboxSpec == Init /\ [][InboxNext]_vars

\* C39: no delivered message is removed unread: when the recipient clears
\* its inbox after a read, every message the clear removes is one the read
\* returned (the inbox holds, in order, messages of the list read).
C39_NoMessageClearedUnread ==
    [][\A p \in Procs :
        Takes(p, "get", "read") =>
            LET inbox == get_messages(calls[p].args.agent_name)
                read == calls[p].result.messages
            IN  /\ Len(inbox) <= Len(read)
                /\ \A i \in 1..Len(inbox) : json_loads(inbox[i]) = read[i]]_vars

----------------------------------------------------------------------------
(* Claims on nested nodes *)

\* The CLAIM edges that agents other than the caller hold on nodes above or
\* below the target of `a` along containment edges.
HeldNearby(a) ==
    {c \in claims :
        /\ c.agent # a.agent_name
        /\ \E n \in TargetNodes(a) :
                c.node \in Descendants(n) \/ n \in Descendants(c.node)}

\* C40: claims on distinct nodes are independent.  A claim call whose
\* target carries no CLAIM edge of another agent does not return "conflict"
\* because another agent holds a node that contains the target or is
\* contained in it: the read of the existing claims goes on to the write (or
\* answers "already_yours"), and the write returns "claimed".
C40_ClaimsIndependent ==
    [][\A p \in Procs :
        LET a == calls[p].args
        IN  /\ (/\ Takes(p, "claim", "check_claim")
                /\ HeldNearby(a) # {} /\ HeldByOthers(a) = {})
                  => /\ Left(p).result.status # "conflict"
                     /\ TargetEdges(a) = {} => calls'[p].pc = "create"
            /\ (Takes(p, "claim", "create") /\ HeldNearby(a) # {})
                  => resp'.result.status = "claimed"]_vars

\* C40 witness: B's claim of Directory src has returned "claimed" while A
\* holds the Codebase node above it and the File src/x.py below it.
C40_Witness ==
    /\ resp.tool = "claim" /\ resp.result.status = "claimed"
    /\ resp.args.agent_name = "B" /\ resp.args.node_path = "src"
    /\ \E c \in claims : c.agent = "A" /\ c.node.label = "Codebase"
    /\ \E c \in claims : c.agent = "A" /\ c.node.path = "src/x.py"
    /\ HeldByCaller(resp.args) # {}
    /\ Cardinality(HeldNearby(resp.args)) = 2

====
